---- MODULE Spec2Model ----
(***************************************************************************)
(* A model of the rice-phenology classification workflow:                  *)
(*   - model_loader_utils.py       (ModelLoader, create_fallback_model)    *)
(*   - rice_classification_optimized.py                                    *)
(*   - rice_classification_with_existing_model.py                          *)
(*                                                                         *)
(* Conventions.                                                            *)
(*   Python None / a value v     : <<>> / <<v>>  (an optional value)        *)
(*   hasattr(o, a)               : a \in o.attrs                            *)
(*   a Python dict               : a function from its keys                *)
(*   a Python or remote string that the code inspects character by         *)
(*   character (lower-casing, trimming, date parsing, substring search)    *)
(*   is a sequence of one-character strings; print() output is kept as a   *)
(*   sequence of message tags.                                             *)
(*   Outcomes of calls that leave the program (pickle, joblib, the remote  *)
(*   engine) are inputs of the action that makes the call.                 *)
(***************************************************************************)
EXTENDS Integers, Sequences, FiniteSets, TLC

VARIABLES
    loaded_model,   \* ModelLoader.loaded_model
    ee_model,       \* ModelLoader.ee_model
    op,             \* the operation that ran last
    arg,            \* the inputs it ran on
    ret,            \* what it returned
    exc,            \* whether it ended by propagating an exception
    calls,          \* the outside calls it made, in order
    out,            \* the messages it printed, in order
    pc,             \* where the running script is
    model,          \* the script's global model
    loaded_successfully,  \* rice_classification_optimized: loaded_successfully
    script,         \* which of the two scripts is running
    koleksi_lengkap,      \* the images of the remote collection, in order
    hasil_klasifikasi,    \* the classified collection
    collection_size,
    vis_params,     \* None while the name vis_params is unbound
    layers,         \* the names of the map's layers, in the order added
    tanggal_mulai,  \* the date pickers' values, <<year, month, day>>
    tanggal_akhir

loaderVars == <<loaded_model, ee_model>>
obsVars == <<op, arg, ret, exc, calls, out>>
scriptVars == <<pc, model, loaded_successfully>>
mapVars == <<script, koleksi_lengkap, hasil_klasifikasi, collection_size, vis_params, layers>>
pickerVars == <<tanggal_mulai, tanggal_akhir>>
vars == <<loaded_model, ee_model, op, arg, ret, exc, calls, out, pc, model, loaded_successfully, script, koleksi_lengkap, hasil_klasifikasi, collection_size, vis_params, layers, tanggal_mulai, tanggal_akhir>>

None == <<>>
Some(v) == <<v>>

(***************************************************************************)
(* Configuration (section 2 of both scripts).                              *)
(***************************************************************************)
BANDS_SELECTED == <<"API", "NDPI", "RPI", "RVI", "VH_int", "VV_int", "angle">>

Range(s) == {s[i] : i \in 1..Len(s)}

\* The rows of the training feature table data_latih.
NRows == 2
data_latih == 1..NRows

\* Values of the 'random' column, in hundredths (0.8 is 80).
RandomValues == {0, 79, 80, 99}

(***************************************************************************)
(* Objects a model file can hold.  An object has a type (the name of its   *)
(* class), the module that defines the class, and attributes; an attribute *)
(* the object does not have is not in attrs and its field is not read.     *)
(***************************************************************************)
AttrNames == {"n_estimators", "max_depth", "n_features_in_", "feature_names_in_", "classes_"}

Obj(type, module, attrs, n, d, nf, fn, cl) ==
    [type |-> type, module |-> module, attrs |-> attrs, n_estimators |-> n, max_depth |-> d,
     n_features_in_ |-> nf, feature_names_in_ |-> fn, classes_ |-> cl]

BandsReversed == <<"angle", "VV_int", "VH_int", "RVI", "RPI", "NDPI", "API">>
BandsOther == <<"API", "NDPI", "RPI", "RVI", "VH_int", "VV_int", "B4">>
Classes == <<1, 2, 3, 4, 5>>

\* The module that defines an estimator class: the library's submodule
\* (its name depends on the library's version), or the package itself.
ClassModules(type) ==
    IF type = "RandomForestClassifier"
    THEN {"sklearn.ensemble._forest", "sklearn.ensemble"}
    ELSE {"sklearn.ensemble._gb", "sklearn.ensemble"}

\* Estimators whose tree count and depth vary (fitted on the scripts' bands).
ForestObjects ==
    { Obj(tm[1], tm[2], {"n_features_in_", "feature_names_in_", "classes_"} \cup a \cup d[1],
          n, d[2], 7, BandsReversed, Classes) :
        tm \in UNION { { <<t, m>> : m \in ClassModules(t) } :
                        t \in {"RandomForestClassifier", "GradientBoostingClassifier"} },
        a \in SUBSET {"n_estimators"},
        n \in {50, 200},
        d \in { <<{}, None>>, <<{"max_depth"}, None>>, <<{"max_depth"}, Some(0)>>,
                <<{"max_depth"}, Some(10)>> } }

\* Random forests whose fitted-feature attributes vary.
FittedObjects ==
    { Obj("RandomForestClassifier", m, {"n_estimators", "max_depth"} \cup a, 50, None, nf, fn, Classes) :
        m \in ClassModules("RandomForestClassifier"),
        a \in SUBSET {"n_features_in_", "feature_names_in_", "classes_"},
        nf \in {5, 7},
        fn \in {BandsReversed, BandsOther} }

\* The parameter dictionary simpan_model_ke_pickle writes: no attribute at all.
DictObject == Obj("dict", "builtins", {}, 0, None, 0, <<>>, <<>>)

\* An absent attribute has no value: its field is given one fixed filler.
Normal(o) ==
    Obj(o.type, o.module, o.attrs,
        IF "n_estimators" \in o.attrs THEN o.n_estimators ELSE 0,
        IF "max_depth" \in o.attrs THEN o.max_depth ELSE None,
        IF "n_features_in_" \in o.attrs THEN o.n_features_in_ ELSE 0,
        IF "feature_names_in_" \in o.attrs THEN o.feature_names_in_ ELSE <<>>,
        IF "classes_" \in o.attrs THEN o.classes_ ELSE <<>>)

Objects == {Normal(o) : o \in ForestObjects \cup FittedObjects \cup {DictObject}}

\* What a deserializer does with the file: it raises, or it returns an
\* object (the file may hold a pickled None).
LoadOutcomes ==
    {[raised |-> TRUE, value |-> None]} \cup
    {[raised |-> FALSE, value |-> v] : v \in {None} \cup {Some(o) : o \in Objects}}

(***************************************************************************)
(* The remote engine's classifier objects (ee.Classifier).                 *)
(***************************************************************************)
\* ee.Classifier.smileRandomForest(numberOfTrees[, maxDepth=...]), when the
\* call returns: an untrained classifier.
smileRandomForest(numberOfTrees, maxDepth) ==
    [numberOfTrees |-> numberOfTrees, maxDepth |-> maxDepth, trained |-> FALSE,
     features |-> None, classProperty |-> "", inputProperties |-> <<>>]

\* Whether the call raises instead.  The engine client decides what it does
\* with the keyword maxDepth: the function it publishes has no parameter of
\* that name, and then a call that passes the keyword raises
\* (maxDepth_rejected); a client that knows the keyword returns a classifier.
\* A call without the keyword returns.
smileRandomForest_raises(maxDepth, maxDepth_rejected) ==
    maxDepth # None /\ maxDepth_rejected

\* classifier.train(features, classProperty, inputProperties), when it succeeds.
train(classifier, features, classProperty, inputProperties) ==
    [classifier EXCEPT !.trained = TRUE, !.features = Some(features),
                       !.classProperty = classProperty,
                       !.inputProperties = inputProperties]

(***************************************************************************)
(* class ModelLoader.  self is [loaded_model, ee_model, bands_selected];   *)
(* a method yields [self, ret, exc, calls, out]: the object afterwards,    *)
(* the value returned, whether an exception left the method instead, the   *)
(* outside calls made and the messages printed.                            *)
(***************************************************************************)
ModelLoader(bands_selected) ==
    [loaded_model |-> None, ee_model |-> None, bands_selected |-> bands_selected]

hasattr(o, a) == a \in o.attrs

\* Python truth value of an optional number: None and 0 are false.
Truthy(v) == v # None /\ v[1] # 0

isinstance_RandomForestClassifier(o) == o.type = "RandomForestClassifier"

\* load_model without its second attempt: a pickle failure is final.
load_model_pickle_only(self, pickle, joblib) ==
    IF ~pickle.raised
    THEN [self  |-> [self EXCEPT !.loaded_model = pickle.value],
          ret   |-> TRUE, exc |-> FALSE,
          calls |-> << [fn |-> "pickle.load", raised |-> FALSE, value |-> pickle.value] >>,
          out   |-> << "Model berhasil dimuat dengan pickle" >>]
    ELSE [self  |-> self,
          ret   |-> FALSE, exc |-> FALSE,
          calls |-> << [fn |-> "pickle.load", raised |-> TRUE, value |-> None] >>,
          out   |-> << "Gagal memuat model dengan pickle" >>]

\* load_model that forgets the object held before when both attempts fail.
load_model_clear_on_failure(self, pickle, joblib) ==
    IF ~pickle.raised
    THEN [self  |-> [self EXCEPT !.loaded_model = pickle.value],
          ret   |-> TRUE, exc |-> FALSE,
          calls |-> << [fn |-> "pickle.load", raised |-> FALSE, value |-> pickle.value] >>,
          out   |-> << "Model berhasil dimuat dengan pickle" >>]
    ELSE IF ~joblib.raised
    THEN [self  |-> [self EXCEPT !.loaded_model = joblib.value],
          ret   |-> TRUE, exc |-> FALSE,
          calls |-> << [fn |-> "pickle.load", raised |-> TRUE, value |-> None],
                       [fn |-> "joblib.load", raised |-> FALSE, value |-> joblib.value] >>,
          out   |-> << "Model berhasil dimuat dengan joblib" >>]
    ELSE [self  |-> [self EXCEPT !.loaded_model = None],
          ret   |-> FALSE, exc |-> FALSE,
          calls |-> << [fn |-> "pickle.load", raised |-> TRUE, value |-> None],
                       [fn |-> "joblib.load", raised |-> TRUE, value |-> None] >>,
          out   |-> << "Gagal memuat model dengan pickle",
                       "Gagal memuat model dengan joblib" >>]

\* pickle / joblib are the outcomes of pickle.load and joblib.load on the file.
load_model(self, pickle, joblib) ==
    IF ~pickle.raised
    THEN [self  |-> [self EXCEPT !.loaded_model = pickle.value],
          ret   |-> TRUE, exc |-> FALSE,
          calls |-> << [fn |-> "pickle.load", raised |-> FALSE, value |-> pickle.value] >>,
          out   |-> << "Model berhasil dimuat dengan pickle" >>]
    ELSE IF ~joblib.raised
    THEN [self  |-> [self EXCEPT !.loaded_model = joblib.value],
          ret   |-> TRUE, exc |-> FALSE,
          calls |-> << [fn |-> "pickle.load", raised |-> TRUE, value |-> None],
                       [fn |-> "joblib.load", raised |-> FALSE, value |-> joblib.value] >>,
          out   |-> << "Model berhasil dimuat dengan joblib" >>]
    ELSE [self  |-> self,
          ret   |-> FALSE, exc |-> FALSE,
          calls |-> << [fn |-> "pickle.load", raised |-> TRUE, value |-> None],
                       [fn |-> "joblib.load", raised |-> TRUE, value |-> None] >>,
          out   |-> << "Gagal memuat model dengan pickle",
                       "Gagal memuat model dengan joblib" >>]

\* InfoKeys probing max_depth by its truth value instead of hasattr.
InfoKeys_truthy_depth(o) ==
    {"model_type", "model_class"}
    \cup (IF hasattr(o, "n_estimators") THEN {"n_estimators"} ELSE {})
    \cup (IF hasattr(o, "max_depth") /\ Truthy(o.max_depth) THEN {"max_depth"} ELSE {})
    \cup (IF hasattr(o, "n_features_in_") THEN {"n_features"} ELSE {})
    \cup (IF hasattr(o, "feature_names_in_") THEN {"feature_names"} ELSE {})
    \cup (IF hasattr(o, "classes_") THEN {"classes"} ELSE {})

\* The dictionary get_model_info builds for a loaded object o.
InfoKeys(o) ==
    {"model_type", "model_class"}
    \cup (IF hasattr(o, "n_estimators") THEN {"n_estimators"} ELSE {})
    \cup (IF hasattr(o, "max_depth") THEN {"max_depth"} ELSE {})
    \cup (IF hasattr(o, "n_features_in_") THEN {"n_features"} ELSE {})
    \cup (IF hasattr(o, "feature_names_in_") THEN {"feature_names"} ELSE {})
    \cup (IF hasattr(o, "classes_") THEN {"classes"} ELSE {})

\* str(type(o)): the class name, qualified by its module unless built in.
str_type(o) ==
    "<class '" \o (IF o.module = "builtins" THEN "" ELSE o.module \o ".") \o o.type \o "'>"

InfoDict(o) ==
    [k \in InfoKeys(o) |->
        CASE k = "model_type"    -> o.type
          [] k = "model_class"   -> str_type(o)
          [] k = "n_estimators"  -> o.n_estimators
          [] k = "max_depth"     -> o.max_depth
          [] k = "n_features"    -> o.n_features_in_
          [] k = "feature_names" -> o.feature_names_in_
          [] k = "classes"       -> o.classes_]

get_model_info(self) ==
    IF self.loaded_model = None
    THEN [self |-> self, ret |-> None, exc |-> FALSE, calls |-> <<>>, out |-> <<>>]
    ELSE [self |-> self, ret |-> Some(InfoDict(self.loaded_model[1])), exc |-> FALSE,
          calls |-> <<>>, out |-> <<>>]

\* The untrained remote classifier create_ee_model builds for the loaded
\* object o (getattr with its defaults, then the branches on the type and
\* on the truth value of max_depth).
BuildClassifier(o) ==
    LET n_trees   == IF hasattr(o, "n_estimators") THEN o.n_estimators ELSE 100
        max_depth == IF hasattr(o, "max_depth") THEN o.max_depth ELSE None
    IN  IF isinstance_RandomForestClassifier(o)
        THEN IF Truthy(max_depth)
             THEN smileRandomForest(n_trees, max_depth)
             ELSE smileRandomForest(n_trees, None)
        ELSE smileRandomForest(100, None)

\* train_raises: whether the remote train call raises; maxDepth_rejected:
\* whether the engine client rejects the keyword maxDepth.  The constructor
\* call is outside the try, so its exception leaves the method, before
\* ee_model is assigned.
create_ee_model(self, training_data, train_raises, maxDepth_rejected) ==
    IF self.loaded_model = None
    THEN [self |-> self, ret |-> None, exc |-> FALSE, calls |-> <<>>,
          out |-> << "Model belum dimuat" >>]
    ELSE
      LET o          == self.loaded_model[1]
          model_info == get_model_info(self).ret[1]
          built      == BuildClassifier(o)
          msgs       == << "Informasi model" >> \o
                        (IF isinstance_RandomForestClassifier(o)
                         THEN << "Membuat Random Forest" >> \o
                              (IF built.maxDepth # None THEN << "Max depth" >> ELSE <<>>)
                         ELSE << "Model type " \o model_info["model_type"] \o " tidak didukung",
                                 "Menggunakan Random Forest default" >>)
          made       == [fn |-> "ee.Classifier.smileRandomForest",
                         numberOfTrees |-> built.numberOfTrees,
                         maxDepth |-> built.maxDepth]
          trainCall  == [fn |-> "train", features |-> training_data,
                         classProperty |-> "FaseNumerik",
                         inputProperties |-> self.bands_selected,
                         raised |-> train_raises]
          trained    == train(built, training_data, "FaseNumerik", self.bands_selected)
      IN  IF smileRandomForest_raises(built.maxDepth, maxDepth_rejected)
          THEN [self  |-> self,
                ret   |-> None, exc |-> TRUE,
                calls |-> << made >>,
                out   |-> msgs]
          ELSE IF ~train_raises
          THEN [self  |-> [self EXCEPT !.ee_model = Some(trained)],
                ret   |-> Some(trained), exc |-> FALSE,
                calls |-> << made, trainCall >>,
                out   |-> msgs \o << "Model Earth Engine berhasil dilatih" >>]
          ELSE [self  |-> [self EXCEPT !.ee_model = Some(built)],
                ret   |-> None, exc |-> FALSE,
                calls |-> << made, trainCall >>,
                out   |-> msgs \o << "Error saat melatih model Earth Engine" >>]

\* FailedCheck with the two checks in the other order.
FailedCheck_names_first(model_info, bands_selected) ==
    IF /\ "feature_names" \in DOMAIN model_info
       /\ Range(model_info["feature_names"]) # Range(bands_selected)
    THEN "names"
    ELSE IF /\ "n_features" \in DOMAIN model_info
            /\ model_info["n_features"] # Len(bands_selected)
    THEN "count"
    ELSE "none"

\* The first check of validate_model_compatibility that fails, if any.
FailedCheck(model_info, bands_selected) ==
    IF /\ "n_features" \in DOMAIN model_info
       /\ model_info["n_features"] # Len(bands_selected)
    THEN "count"
    ELSE IF /\ "feature_names" \in DOMAIN model_info
            /\ Range(model_info["feature_names"]) # Range(bands_selected)
    THEN "names"
    ELSE "none"

validate_model_compatibility(self) ==
    IF self.loaded_model = None
    THEN [self |-> self, ret |-> FALSE, exc |-> FALSE, calls |-> <<>>, out |-> <<>>]
    ELSE
      LET model_info == get_model_info(self).ret[1]
          failed     == FailedCheck(model_info, self.bands_selected)
      IN  IF failed = "count"
          THEN [self |-> self, ret |-> FALSE, exc |-> FALSE, calls |-> <<>>,
                out |-> << "Warning: Model dilatih dengan jumlah fitur lain" >>]
          ELSE IF failed = "names"
          THEN [self |-> self, ret |-> FALSE, exc |-> FALSE, calls |-> <<>>,
                out |-> << "Warning: Fitur model tidak cocok", "Model features",
                           "Selected bands" >>]
          ELSE [self |-> self, ret |-> TRUE, exc |-> FALSE, calls |-> <<>>,
                out |-> << "Model kompatibel dengan bands yang dipilih" >>]

(***************************************************************************)
(* A ModelLoader object in use: its methods called in any order.           *)
(***************************************************************************)
Self == [loaded_model |-> loaded_model, ee_model |-> ee_model,
         bands_selected |-> BANDS_SELECTED]

Finish(name, input, r) ==
    /\ arg' = input
    /\ loaded_model' = r.self.loaded_model
    /\ ee_model' = r.self.ee_model
    /\ op' = name
    /\ ret' = r.ret
    /\ exc' = r.exc
    /\ calls' = r.calls
    /\ out' = r.out

ScriptIdle ==
    /\ pc = "idle"
    /\ model = None
    /\ loaded_successfully = FALSE
    /\ script = "none"
    /\ koleksi_lengkap = <<>>
    /\ hasil_klasifikasi = <<>>
    /\ collection_size = 0
    /\ vis_params = None
    /\ layers = <<>>
    /\ tanggal_mulai = <<2024, 1, 1>>
    /\ tanggal_akhir = <<2024, 12, 31>>

InitLoader ==
    /\ ScriptIdle
    /\ loaded_model = ModelLoader(BANDS_SELECTED).loaded_model
    /\ ee_model = ModelLoader(BANDS_SELECTED).ee_model
    /\ op = "__init__"
    /\ arg = None
    /\ ret = None
    /\ exc = FALSE
    /\ calls = <<>>
    /\ out = <<>>

LoadModel ==
    \E pickle \in LoadOutcomes :
        \E joblib \in (IF pickle.raised THEN LoadOutcomes ELSE {pickle}) :
            /\ Finish("load_model", <<pickle, joblib>>, load_model(Self, pickle, joblib))
            /\ UNCHANGED <<scriptVars, mapVars, pickerVars>>

GetModelInfo ==
    /\ Finish("get_model_info", <<>>, get_model_info(Self))
    /\ UNCHANGED <<scriptVars, mapVars, pickerVars>>

\* The object passes the keyword maxDepth to the constructor.
PassesMaxDepth(value) ==
    /\ value # None
    /\ isinstance_RandomForestClassifier(value[1])
    /\ hasattr(value[1], "max_depth")
    /\ Truthy(value[1].max_depth)

\* The outcomes <<train_raises, maxDepth_rejected>> of the outside calls of
\* create_ee_model on the loaded value: the train call is reached only when
\* the constructor returned, the keyword matters only when it is passed.
EeOutcomes(value) ==
    { <<FALSE, FALSE>>, <<TRUE, FALSE>> }
    \cup (IF PassesMaxDepth(value) THEN { <<FALSE, TRUE>> } ELSE {})

CreateEeModel ==
    \E o \in EeOutcomes(loaded_model) :
        /\ Finish("create_ee_model", <<data_latih, o[1], o[2]>>,
                  create_ee_model(Self, data_latih, o[1], o[2]))
        /\ UNCHANGED <<scriptVars, mapVars, pickerVars>>

ValidateModelCompatibility ==
    /\ Finish("validate_model_compatibility", <<>>, validate_model_compatibility(Self))
    /\ UNCHANGED <<scriptVars, mapVars, pickerVars>>

NextLoader == LoadModel \/ GetModelInfo \/ CreateEeModel \/ ValidateModelCompatibility

SpecLoader == InitLoader /\ [][NextLoader]_vars

\* create_fallback_model with a test set of the rows strictly above 0.8.
create_fallback_model_test_above(training_data, bands_selected, n_trees, random, train_raises, accuracy_raises) ==
    LET train_set == {r \in training_data : random[r] < 80}
        test_set  == {r \in training_data : random[r] > 80}
        trainCall == [fn |-> "train", features |-> train_set,
                      classProperty |-> "FaseNumerik",
                      inputProperties |-> bands_selected, raised |-> train_raises]
        made      == [fn |-> "ee.Classifier.smileRandomForest",
                      numberOfTrees |-> n_trees, maxDepth |-> None]
        fitted    == train(smileRandomForest(n_trees, None), train_set,
                           "FaseNumerik", bands_selected)
    IN  IF train_raises
        THEN [ret |-> None, exc |-> TRUE, calls |-> << made, trainCall >>,
              out |-> << "Membuat model fallback" >>]
        ELSE [ret |-> Some(fitted), exc |-> FALSE,
              calls |-> << made, trainCall,
                           [fn |-> "accuracy", features |-> test_set,
                            raised |-> accuracy_raises] >>,
              out |-> << "Membuat model fallback",
                         IF accuracy_raises
                         THEN "Model fallback berhasil dilatih (akurasi tidak dapat dihitung)"
                         ELSE "Model fallback berhasil dilatih dengan akurasi" >>]

(***************************************************************************)
(* create_fallback_model (model_loader_utils.py).  random is the column    *)
(* randomColumn('random', 42) adds; train_raises and accuracy_raises are   *)
(* the outcomes of the remote train call and of the accuracy evaluation.   *)
(***************************************************************************)
create_fallback_model(training_data, bands_selected, n_trees, random, train_raises, accuracy_raises) ==
    LET train_set == {r \in training_data : random[r] < 80}
        test_set  == {r \in training_data : random[r] >= 80}
        trainCall == [fn |-> "train", features |-> train_set,
                      classProperty |-> "FaseNumerik",
                      inputProperties |-> bands_selected, raised |-> train_raises]
        made      == [fn |-> "ee.Classifier.smileRandomForest",
                      numberOfTrees |-> n_trees, maxDepth |-> None]
        fitted    == train(smileRandomForest(n_trees, None), train_set,
                           "FaseNumerik", bands_selected)
    IN  IF train_raises
        THEN [ret |-> None, exc |-> TRUE, calls |-> << made, trainCall >>,
              out |-> << "Membuat model fallback" >>]
        ELSE [ret |-> Some(fitted), exc |-> FALSE,
              calls |-> << made, trainCall,
                           [fn |-> "accuracy", features |-> test_set,
                            raised |-> accuracy_raises] >>,
              out |-> << "Membuat model fallback",
                         IF accuracy_raises
                         THEN "Model fallback berhasil dilatih (akurasi tidak dapat dihitung)"
                         ELSE "Model fallback berhasil dilatih dengan akurasi" >>]

(***************************************************************************)
(* rice_classification_optimized.py, section 6: load the model through     *)
(* ModelLoader, or fall back.  in is the record of the outside outcomes    *)
(* the section meets: [pickle, joblib, train_raises, random,               *)
(* fallback_train_raises, accuracy_raises].  The result holds the loader,  *)
(* model and loaded_successfully afterwards, whether the script died of an *)
(* exception, and the calls of the section in order (a method's own        *)
(* outside calls follow the entry of the method).                          *)
(***************************************************************************)
Entry(name) == [fn |-> name]

\* Lines 98-102: what the script prints about the classifier it got back.
ConvertedMessage(got) ==
    IF got # None
    THEN "Model berhasil dimuat dan dikonversi untuk Earth Engine!"
    ELSE "Gagal membuat model Earth Engine dari model yang dimuat"

\* Lines 97-102: create_ee_model on the validated loader, after the load r1
\* and the validation r2.  r3 is what create_ee_model did.
AfterValidation(r1, r2, r3) ==
    IF r3.exc
    THEN [loader |-> r3.self, model |-> None, loaded_successfully |-> FALSE,
          exc |-> TRUE,
          calls |-> << Entry("load_model") >> \o r1.calls
                    \o << Entry("validate_model_compatibility") >>
                    \o << Entry("create_ee_model") >> \o r3.calls,
          out |-> r1.out \o r2.out \o r3.out]
    ELSE [loader |-> r3.self, model |-> r3.ret,
          loaded_successfully |-> r3.ret # None,
          exc |-> FALSE,
          calls |-> << Entry("load_model") >> \o r1.calls
                    \o << Entry("validate_model_compatibility") >>
                    \o << Entry("create_ee_model") >> \o r3.calls,
          out |-> r1.out \o r2.out \o r3.out \o << ConvertedMessage(r3.ret) >>]

\* Lines 95-104: the validation r2 of the loader that load_model (r1) left.
AfterLoad(r1, r2, in) ==
    IF ~r2.ret
    THEN [loader |-> r2.self, model |-> None, loaded_successfully |-> FALSE,
          exc |-> FALSE,
          calls |-> << Entry("load_model") >> \o r1.calls
                    \o << Entry("validate_model_compatibility") >>,
          out |-> r1.out \o r2.out
                  \o << "Model tidak kompatibel, akan menggunakan fallback" >>]
    ELSE AfterValidation(r1, r2,
                         create_ee_model(r2.self, data_latih, in.train_raises, in.maxDepth_rejected))

\* Lines 93-104, r1 being what load_model did.
AfterLoadModel(r1, in) ==
    IF ~r1.ret
    THEN [loader |-> r1.self, model |-> None, loaded_successfully |-> FALSE,
          exc |-> FALSE,
          calls |-> << Entry("load_model") >> \o r1.calls,
          out |-> r1.out]
    ELSE AfterLoad(r1, validate_model_compatibility(r1.self), in)

\* Lines 86-104: the attempt to use the stored model.
LoadedPart(in) ==
    AfterLoadModel(load_model(ModelLoader(BANDS_SELECTED), in.pickle, in.joblib), in)

\* Lines 106-113, after the attempt a: f is what create_fallback_model does
\* when it is called.  An exception that left create_ee_model at line 97
\* has stopped the script before.
Fallback(a, f) ==
    IF a.exc
    THEN [loader |-> a.loader, model |-> None,
          loaded_successfully |-> FALSE, exc |-> TRUE, calls |-> a.calls,
          out |-> a.out]
    ELSE IF a.loaded_successfully
    THEN [loader |-> a.loader, model |-> a.model,
          loaded_successfully |-> TRUE, exc |-> FALSE, calls |-> a.calls,
          out |-> a.out]
    ELSE IF f.exc \/ f.ret = None
    THEN [loader |-> a.loader, model |-> a.model,
          loaded_successfully |-> FALSE, exc |-> TRUE,
          calls |-> a.calls \o << Entry("create_fallback_model") >> \o f.calls,
          out |-> a.out \o << "Menggunakan model fallback..." >> \o f.out]
    ELSE [loader |-> a.loader, model |-> f.ret,
          loaded_successfully |-> FALSE, exc |-> FALSE,
          calls |-> a.calls \o << Entry("create_fallback_model") >> \o f.calls,
          out |-> a.out \o << "Menggunakan model fallback..." >> \o f.out
                  \o << "Model fallback berhasil dibuat!" >>]

\* joblib.load after pickle.load (load_model, lines 31-36): called only when
\* pickle.load raised, and then it does anything a deserializer does.  After a
\* successful pickle.load it is not called and its outcome is never read.
JoblibOutcomes(pickle) ==
    IF pickle.raised
    THEN LoadOutcomes
    ELSE {[raised |-> TRUE, value |-> None], [raised |-> FALSE, value |-> Some(DictObject)]}

\* Lines 86-113.
section6(in) ==
    Fallback(LoadedPart(in),
             create_fallback_model(data_latih, BANDS_SELECTED, 200, in.random,
                                   in.fallback_train_raises, in.accuracy_raises))

InitOptimized ==
    /\ pc = "section6"
    /\ model = None
    /\ loaded_successfully = FALSE
    /\ script = "optimized"
    /\ koleksi_lengkap = <<>>
    /\ hasil_klasifikasi = <<>>
    /\ collection_size = 0
    /\ vis_params = None
    /\ layers = <<>>
    /\ tanggal_mulai = <<2024, 1, 1>>
    /\ tanggal_akhir = <<2024, 12, 31>>
    /\ loaded_model = None
    /\ ee_model = None
    /\ op = "start"
    /\ arg = None
    /\ ret = None
    /\ exc = FALSE
    /\ calls = <<>>
    /\ out = <<>>

Section6 ==
    /\ pc = "section6"
    /\ \E pk \in LoadOutcomes :
       \E jb \in JoblibOutcomes(pk) :
       \E eo \in EeOutcomes(IF pk.raised THEN jb.value ELSE pk.value),
          rnd \in [data_latih -> RandomValues], ftr \in BOOLEAN, ar \in BOOLEAN :
        LET in == [pickle |-> pk, joblib |-> jb, train_raises |-> eo[1],
                   maxDepth_rejected |-> eo[2], random |-> rnd,
                   fallback_train_raises |-> ftr, accuracy_raises |-> ar]
            r  == section6(in)
        IN  /\ pc' = IF r.exc THEN "aborted" ELSE "section7"
            /\ model' = r.model
            /\ loaded_successfully' = r.loaded_successfully
            /\ loaded_model' = r.loader.loaded_model
            /\ ee_model' = r.loader.ee_model
            /\ op' = "section6"
            /\ arg' = in
            /\ ret' = None
            /\ exc' = r.exc
            /\ calls' = r.calls
            /\ out' = r.out
            /\ UNCHANGED <<mapVars, pickerVars>>

NextOptimized == Section6

SpecOptimized == InitOptimized /\ [][NextOptimized]_vars

(***************************************************************************)
(* Remote strings (ee.String) as sequences of characters.                  *)
(***************************************************************************)
LowerOf ==
    [A |-> "a", B |-> "b", C |-> "c", D |-> "d", E |-> "e", F |-> "f", G |->
     "g", H |-> "h", I |-> "i", J |-> "j", K |-> "k", L |-> "l", M |-> "m", N
     |-> "n", O |-> "o", P |-> "p", Q |-> "q", R |-> "r", S |-> "s", T |-> "t",
     U |-> "u", V |-> "v", W |-> "w", X |-> "x", Y |-> "y", Z |-> "z"]

UpperOf ==
    [a |-> "A", b |-> "B", c |-> "C", d |-> "D", e |-> "E", f |-> "F", g |->
     "G", h |-> "H", i |-> "I", j |-> "J", k |-> "K", l |-> "L", m |-> "M", n
     |-> "N", o |-> "O", p |-> "P", q |-> "Q", r |-> "R", s |-> "S", t |-> "T",
     u |-> "U", v |-> "V", w |-> "W", x |-> "X", y |-> "Y", z |-> "Z"]

toLowerChar(c) == IF c \in DOMAIN LowerOf THEN LowerOf[c] ELSE c
toUpperChar(c) == IF c \in DOMAIN UpperOf THEN UpperOf[c] ELSE c

\* ee.String.toLowerCase
toLowerCase(s) == [i \in 1..Len(s) |-> toLowerChar(s[i])]

IsSpace(c) == c \in {" ", "\t", "\n", "\r"}

SetMin(S) == CHOOSE x \in S : \A y \in S : x <= y
SetMax(S) == CHOOSE x \in S : \A y \in S : x >= y

\* ee.String.trim: leading and trailing whitespace removed.
trim(s) ==
    LET kept == {i \in 1..Len(s) : ~IsSpace(s[i])}
    IN  IF kept = {} THEN <<>> ELSE SubSeq(s, SetMin(kept), SetMax(kept))

\* The literals of konversi_label_numerik.
S_vegetatif_1 == <<"v", "e", "g", "e", "t", "a", "t", "i", "f", " ", "1">>
S_vegetatif_2 == <<"v", "e", "g", "e", "t", "a", "t", "i", "f", " ", "2">>
S_generatif == <<"g", "e", "n", "e", "r", "a", "t", "i", "f">>
S_panen == <<"p", "a", "n", "e", "n">>
S_bera == <<"b", "e", "r", "a">>

\* feature.set(name, value)
SetProperty(feature, name, value) ==
    [k \in DOMAIN feature \cup {name} |-> IF k = name THEN value ELSE feature[k]]

\* konversi_label_numerik comparing the text without trimming it.
konversi_label_numerik_no_trim(feature) ==
    LET fase_string == toLowerCase(feature["Fase"])
        fase_numerik ==
            IF fase_string = S_vegetatif_1 THEN 1
            ELSE IF fase_string = S_vegetatif_2 THEN 2
            ELSE IF fase_string = S_generatif THEN 3
            ELSE IF fase_string = S_panen THEN 4
            ELSE IF fase_string = S_bera THEN 5 ELSE 0
    IN  SetProperty(feature, "FaseNumerik", fase_numerik)

\* rice_classification_optimized.py, konversi_label_numerik.
konversi_label_numerik(feature) ==
    LET fase_string == trim(toLowerCase(feature["Fase"]))
        fase_numerik ==
            IF fase_string = S_vegetatif_1 THEN 1
            ELSE IF fase_string = S_vegetatif_2 THEN 2
            ELSE IF fase_string = S_generatif THEN 3
            ELSE IF fase_string = S_panen THEN 4
            ELSE IF fase_string = S_bera THEN 5 ELSE 0
    IN  SetProperty(feature, "FaseNumerik", fase_numerik)

\* rice_classification_with_existing_model.py, konversi_label_numerik.
konversi_label_numerik_existing(feature) ==
    LET fase_string == trim(toLowerCase(feature["Fase"]))
        fase_numerik ==
            IF fase_string = S_vegetatif_1 THEN 1
            ELSE IF fase_string = S_vegetatif_2 THEN 2
            ELSE IF fase_string = S_generatif THEN 3
            ELSE IF fase_string = S_panen THEN 4
            ELSE IF fase_string = S_bera THEN 5 ELSE 0
    IN  SetProperty(feature, "FaseNumerik", fase_numerik)

(***************************************************************************)
(* The label conversion applied to one training point.  The 'Fase' text of *)
(* the point is a word written in some letter case between two runs of     *)
(* whitespace.                                                             *)
(***************************************************************************)
MaxPad == 1

PhaseWords == {S_vegetatif_1, S_vegetatif_2, S_generatif, S_panen, S_bera}

OtherWords ==
    { <<>>,
      <<"v", "e", "g", "e", "t", "a", "t", "i", "f">>,
      <<"v", "e", "g", "e", "t", "a", "t", "i", "f", " ", "3">>,
      <<"v", "e", "g", "e", "t", "a", "t", "i", "f", " ", " ", "1">>,
      <<"v", "e", "g", "e", "t", "a", "t", "i", "f", "\t", "2">>,
      <<"g", "e", "n", "e", "r", "a", "t", "i", "f", ".">>,
      <<"p", "a", " ", "n", "e", "n">>,
      <<"1">>,
      <<"u", "n", "k", "n", "o", "w", "n">> }

Words == PhaseWords \cup OtherWords

LetterCases == {"lower", "upper", "title", "mixed"}

InCase(w, case) ==
    [i \in 1..Len(w) |->
        CASE case = "lower" -> w[i]
          [] case = "upper" -> toUpperChar(w[i])
          [] case = "title" -> IF i = 1 THEN toUpperChar(w[i]) ELSE w[i]
          [] case = "mixed" -> IF i % 2 = 0 THEN toUpperChar(w[i]) ELSE w[i]]

Pads == UNION { [1..n -> {" ", "\t"}] : n \in 0..MaxPad }

\* A point's properties besides 'Fase': with or without an earlier FaseNumerik.
PointProperties == { [id |-> 17], [id |-> 17, FaseNumerik |-> 9] }

LabelInputs ==
    { [word |-> w, case |-> c, left |-> l, right |-> r, properties |-> pr] :
        w \in Words, c \in LetterCases, l \in Pads, r \in Pads, pr \in PointProperties }

FeatureOf(in) ==
    SetProperty(in.properties, "Fase", in.left \o InCase(in.word, in.case) \o in.right)

InitLabel ==
    /\ ScriptIdle
    /\ loaded_model = None
    /\ ee_model = None
    /\ op = "start"
    /\ arg = None
    /\ ret = None
    /\ exc = FALSE
    /\ calls = <<>>
    /\ out = <<>>

\* titik_pelatihan_limit.map(konversi_label_numerik), on one point, in
\* each of the two scripts.
KonversiLabel ==
    /\ op = "start"
    /\ \E in \in LabelInputs :
        /\ op' = "konversi_label_numerik"
        /\ arg' = in
        /\ ret' = [optimized |-> konversi_label_numerik(FeatureOf(in)),
                   existing |-> konversi_label_numerik_existing(FeatureOf(in))]
        /\ exc' = FALSE
        /\ calls' = <<>>
        /\ out' = <<>>
        /\ UNCHANGED <<loaderVars, scriptVars, mapVars, pickerVars>>

NextLabel == KonversiLabel

SpecLabel == InitLabel /\ [][NextLabel]_vars

(***************************************************************************)
(* Section 5 of the optimized script: the training feature table.  A row   *)
(* (an ee.Feature without geometry) is a function from the names of the    *)
(* properties it has to their values; a property can be absent or null     *)
(* (None).                                                                 *)
(***************************************************************************)
MaxPoints == 2

\* The images of koleksi_latih that are sampled.
TrainImages == {1, 2}

\* What an image gives at a point: a value for every band, no value for
\* one band (masked), or a null for one band.
PixelOutcomes == {"full", "masked", "null"}

Pixel(outcome) ==
    CASE outcome = "full" -> [b \in Range(BANDS_SELECTED) |-> Some(1)]
      [] outcome = "masked" -> [b \in Range(BANDS_SELECTED) \ {"VH_int"} |-> Some(1)]
      [] outcome = "null" -> [b \in Range(BANDS_SELECTED) |-> IF b = "RVI" THEN None ELSE Some(1)]

\* The training points' 'Fase' texts: the five phases and a text that
\* names none of them.
PointTexts ==
    { InCase(w, "title") : w \in PhaseWords \cup { <<"v", "e", "g", "e", "t", "a", "t", "i", "f">> } }

PointLists == UNION { [1..n -> PointTexts] : n \in 1..MaxPoints }

\* image.sampleRegions(collection, properties): one row per point, with the
\* image's values at the point and the listed properties of the point.
sampleRegions(pixels, collection, properties) ==
    [i \in 1..Len(collection) |->
        [k \in DOMAIN pixels[i] \cup (properties \cap DOMAIN collection[i]) |->
            IF k \in DOMAIN pixels[i] THEN pixels[i][k] ELSE Some(collection[i][k])]]

RECURSIVE flatten(_)
flatten(tables) == IF tables = <<>> THEN <<>> ELSE Head(tables) \o flatten(Tail(tables))

\* ee.Filter.notNull testing only that the row has the properties.
notNull_presence_only(row, properties) ==
    \A p \in properties : p \in DOMAIN row

\* ee.Filter.notNull(properties): the row has every property, none null.
notNull(row, properties) ==
    \A p \in properties : p \in DOMAIN row /\ row[p] # None

\* Lines 60-79: titik_pelatihan_numerik, ekstrak_fitur on every image,
\* flatten, filter.  samples[image][i] is what the image gives at point i.
persiapan_data_training(texts, samples) ==
    LET titik_pelatihan_numerik ==
            [i \in 1..Len(texts) |-> konversi_label_numerik([id |-> i, Fase |-> texts[i]])]
        ekstrak_fitur(citra) ==
            sampleRegions([i \in 1..Len(texts) |-> Pixel(samples[citra][i])],
                          titik_pelatihan_numerik, {"FaseNumerik"})
        tables == [citra \in 1..Cardinality(TrainImages) |-> ekstrak_fitur(citra)]
    IN  SelectSeq(flatten(tables),
                  LAMBDA row : notNull(row, Range(BANDS_SELECTED) \cup {"FaseNumerik"}))

InitTable ==
    /\ ScriptIdle
    /\ loaded_model = None
    /\ ee_model = None
    /\ op = "start"
    /\ arg \in { [texts |-> t, samples |-> s] :
                   t \in PointLists, s \in UNION { [TrainImages -> [1..n -> PixelOutcomes]] : n \in 1..MaxPoints } }
    /\ Len(arg.texts) = Len(arg.samples[1])
    /\ ret = None
    /\ exc = FALSE
    /\ calls = <<>>
    /\ out = <<>>

\* Lines 60-80, sections 4 (its last statements) and 5: data_latih.
PersiapanDataTraining ==
    /\ op = "start"
    /\ op' = "persiapan_data_training"
    /\ ret' = persiapan_data_training(arg.texts, arg.samples)
    /\ out' = << "Label berhasil dikonversi ke format numerik",
                  "Mempersiapkan data training...",
                  "Data training berhasil disiapkan" >>
    /\ UNCHANGED <<arg, exc, calls, loaderVars, scriptVars, mapVars, pickerVars>>

NextTable == PersiapanDataTraining

SpecTable == InitTable /\ [][NextTable]_vars

(***************************************************************************)
(* Dates.  A timestamp ('system:time_start', milliseconds since 1970) is   *)
(* kept as [day, ms]: whole days since 1970-01-01 and the milliseconds     *)
(* into that day, so that timestamp = day * 86400000 + ms.  Date strings   *)
(* are sequences of characters.                                            *)
(***************************************************************************)
Digits == <<"0", "1", "2", "3", "4", "5", "6", "7", "8", "9">>
DigitChar(n) == Digits[n + 1]
DigitValue(c) == (CHOOSE i \in 1..10 : Digits[i] = c) - 1

Pad2(n) == << DigitChar(n \div 10), DigitChar(n % 10) >>
Pad4(n) == << DigitChar(n \div 1000), DigitChar((n \div 100) % 10), DigitChar((n \div 10) % 10), DigitChar(n % 10) >>

\* The proleptic Gregorian calendar, as the engine's dates and Python's
\* datetime use it: days since 1970-01-01 of a civil date, and back.
DaysFromCivil(y, m, d) ==
    LET yy  == IF m <= 2 THEN y - 1 ELSE y
        era == yy \div 400
        yoe == yy - era * 400
        mp  == IF m > 2 THEN m - 3 ELSE m + 9
        doy == (153 * mp + 2) \div 5 + d - 1
        doe == yoe * 365 + yoe \div 4 - yoe \div 100 + doy
    IN  era * 146097 + doe - 719468

CivilFromDays(days) ==
    LET z   == days + 719468
        era == z \div 146097
        doe == z - era * 146097
        yoe == (doe - doe \div 1460 + doe \div 36524 - doe \div 146096) \div 365
        doy == doe - (365 * yoe + yoe \div 4 - yoe \div 100)
        mp  == (5 * doy + 2) \div 153
        d   == doy - (153 * mp + 2) \div 5 + 1
        m   == IF mp < 10 THEN mp + 3 ELSE mp - 9
        y   == yoe + era * 400 + (IF m <= 2 THEN 1 ELSE 0)
    IN  <<y, m, d>>

\* ee.Date(timestamp).format('YYYY-MM-dd'), in UTC.
FormatDate(timestamp) ==
    LET c == CivilFromDays(timestamp.day)
    IN  Pad4(c[1]) \o <<"-">> \o Pad2(c[2]) \o <<"-">> \o Pad2(c[3])

\* Python's str of a non-negative integer.
RECURSIVE str(_)
str(n) == IF n < 10 THEN << DigitChar(n) >> ELSE str(n \div 10) \o << DigitChar(n % 10) >>

\* datetime.strftime('%Y-%m-%d') of a date picker's value.  %Y is the year
\* in decimal, which the C library here does not pad to four digits.
strftime(value) == str(value[1]) \o <<"-">> \o Pad2(value[2]) \o <<"-">> \o Pad2(value[3])

\* The timestamp the engine reads from a 'YYYY-MM-dd' string: that day's
\* midnight, UTC.
ParseDate(text) ==
    LET y == 1000 * DigitValue(text[1]) + 100 * DigitValue(text[2])
             + 10 * DigitValue(text[3]) + DigitValue(text[4])
        m == 10 * DigitValue(text[6]) + DigitValue(text[7])
        d == 10 * DigitValue(text[9]) + DigitValue(text[10])
    IN  [day |-> DaysFromCivil(y, m, d), ms |-> 0]

Before(t1, t2) == t1.day < t2.day \/ (t1.day = t2.day /\ t1.ms < t2.ms)

\* collection.filterDate(start, end): start inclusive, end exclusive, on
\* 'system:time_start'.
filterDate(collection, start, end) ==
    LET InRange(image) ==
            /\ ~Before(image.properties["system:time_start"], ParseDate(start))
            /\ Before(image.properties["system:time_start"], ParseDate(end))
    IN  SelectSeq(collection, InRange)

(***************************************************************************)
(* Images and the classification of a collection (section 7 of the         *)
(* optimized script, section 6 of the other).  An image is                 *)
(* [bands, properties]; pixel values are not modelled.                     *)
(***************************************************************************)
\* image.classify(model): one band, 'classification'; the source image's
\* properties are not relied on (the code sets the ones it needs again).
classify(image, classifier) ==
    [bands |-> << "classification" >>, properties |-> [k \in {} |-> None]]

\* image.rename(name), on a one-band image.
rename(image, name) == [image EXCEPT !.bands = << name >>]

\* image.set(dictionary)
SetProperties(image, dictionary) ==
    [image EXCEPT !.properties =
        [k \in DOMAIN image.properties \cup DOMAIN dictionary |->
            IF k \in DOMAIN dictionary THEN dictionary[k] ELSE image.properties[k]]]

\* klasifikasi_image without 'system:time_start' on its result.
klasifikasi_image_no_time(image, classifier) ==
    LET classified == rename(classify(image, classifier), "classification")
        tanggal    == image.properties["system:time_start"]
    IN  SetProperties(classified, [tanggal |-> FormatDate(tanggal)])

\* rice_classification_optimized.py, klasifikasi_image.
klasifikasi_image(image, classifier) ==
    LET classified == rename(classify(image, classifier), "classification")
        tanggal    == image.properties["system:time_start"]
    IN  SetProperties(classified,
            [k \in {"system:time_start", "tanggal"} |->
                IF k = "tanggal" THEN FormatDate(tanggal)
                ELSE image.properties["system:time_start"]])

\* collection.map(klasifikasi_image)
klasifikasi_collection(collection, classifier) ==
    [i \in 1..Len(collection) |-> klasifikasi_image(collection[i], classifier)]

\* rice_classification_with_existing_model.py, klasifikasi_image.
klasifikasi_image_existing(image, classifier) ==
    LET classified == rename(classify(image, classifier), "classification")
        tanggal    == image.properties["system:time_start"]
    IN  SetProperties(classified,
            [k \in {"system:time_start", "tanggal"} |->
                IF k = "tanggal" THEN FormatDate(tanggal)
                ELSE image.properties["system:time_start"]])

klasifikasi_collection_existing(collection, classifier) ==
    [i \in 1..Len(collection) |-> klasifikasi_image_existing(collection[i], classifier)]

(***************************************************************************)
(* The map (geemap.Map): its layers by name.  Adding a layer under a name  *)
(* the map already has replaces that layer.                                *)
(***************************************************************************)
PALET == << "#FF0000", "#00FF00", "#0000FF", "#8B4513", "#FFFF00" >>

S_Titik_Pelatihan == <<"T", "i", "t", "i", "k", " ", "P", "e", "l", "a", "t", "i", "h", "a", "n">>
S_Klasifikasi_Mean == <<"K", "l", "a", "s", "i", "f", "i", "k", "a", "s", "i", " ", "M", "e", "a", "n">>
S_Klasifikasi == <<"K", "l", "a", "s", "i", "f", "i", "k", "a", "s", "i">>
S_sd == <<" ", "s", ".", "d", ".", " ">>

addLayer(names, name) == SelectSeq(names, LAMBDA n : n # name) \o << name >>

remove_layer(names, name) == SelectSeq(names, LAMBDA n : n # name)

\* Python's  sub in text
Contains(text, sub) ==
    \E i \in 0..(Len(text) - Len(sub)) : SubSeq(text, i + 1, i + Len(sub)) = sub

\* f'Klasifikasi {start_date} s.d. {end_date}'
LayerName(start_date, end_date) ==
    S_Klasifikasi \o << " " >> \o start_date \o S_sd \o end_date

(***************************************************************************)
(* The scripts from the classification on: sections 7 and 8 of the         *)
(* optimized script (6 and 7 of the other), then the widgets' callbacks.   *)
(***************************************************************************)
MaxImages == 2

\* 'system:time_start' values of the collection's images: 2023-12-31
\* 23:59:59.999, 2024-01-01 00:00, 2024-06-16 10:30, 2024-12-31 00:00.
ImageTimes ==
    { [day |-> 19722, ms |-> 86399999], [day |-> 19723, ms |-> 0],
      [day |-> 19890, ms |-> 37800000], [day |-> 20088, ms |-> 0] }

Images ==
    { [bands |-> BANDS_SELECTED, properties |-> [k \in {"system:time_start"} |-> t]] :
        t \in ImageTimes }

Collections == UNION { [1..n -> Images] : n \in 0..MaxImages }

\* Dates a user picks.
PickerDates == { <<2024, 1, 1>>, <<2024, 6, 16>>, <<2024, 12, 31>> }

\* A classifier as section 6 (section 5 of the other script) leaves it.
TrainedModel ==
    Some(train(smileRandomForest(200, None), data_latih, "FaseNumerik", BANDS_SELECTED))

InitMap ==
    /\ pc = "section7"
    /\ script \in {"optimized", "existing"}
    /\ model = TrainedModel
    /\ loaded_successfully = FALSE
    /\ loaded_model = None
    /\ ee_model = None
    /\ koleksi_lengkap \in Collections
    /\ hasil_klasifikasi = <<>>
    /\ collection_size = 0
    /\ vis_params = None
    /\ layers = <<>>
    /\ tanggal_mulai = <<2024, 1, 1>>
    /\ tanggal_akhir = <<2024, 12, 31>>
    /\ op = "start"
    /\ arg = None
    /\ ret = None
    /\ exc = FALSE
    /\ calls = <<>>
    /\ out = <<>>

\* hasil_klasifikasi = klasifikasi_collection(koleksi_lengkap), and its size.
Section7 ==
    /\ pc = "section7"
    /\ \E size_raises \in BOOLEAN :
        /\ hasil_klasifikasi' =
              IF script = "optimized"
              THEN klasifikasi_collection(koleksi_lengkap, model[1])
              ELSE klasifikasi_collection_existing(koleksi_lengkap, model[1])
        /\ collection_size' = IF size_raises THEN 0 ELSE Len(hasil_klasifikasi')
        /\ pc' = IF size_raises THEN "aborted" ELSE "section8"
        /\ op' = "klasifikasi_collection"
        /\ arg' = <<size_raises>>
        /\ ret' = None
        /\ exc' = size_raises
        /\ calls' = << [fn |-> "size().getInfo", raised |-> size_raises] >>
        /\ out' = IF size_raises THEN <<>> ELSE << "Jumlah citra yang diklasifikasi" >>
    /\ UNCHANGED <<loaderVars, model, loaded_successfully, script, koleksi_lengkap, vis_params, layers, pickerVars>>

\* The handler's result, leaving the map's layers as names_after.
Handled(names_after, callsMade, printed) ==
    [layers |-> names_after, ret |-> None, exc |-> FALSE, calls |-> callsMade, out |-> printed]

RemoteCall(name, raised) == [fn |-> name, raised |-> raised]

\* The statement of the map section that raises, if it is reached ("none":
\* no statement raises).
Section8Fails ==
    {"none", "geemap.Map", "addLayer Titik Pelatihan", "addLayer Klasifikasi Mean", "centerObject"}

\* section8 defining vis_params only for a collection of more than one image.
section8_vis_above_one(size, scr, fail) ==
    LET vis   == Some([min |-> 1, max |-> 5, palette |-> PALET])
        titik == addLayer(<<>>, S_Titik_Pelatihan)
        both  == addLayer(titik, S_Klasifikasi_Mean)
        ok    == RemoteCall("Map.addLayer", FALSE)
        Stopped(v, names, callsMade) ==
            [vis_params |-> v, layers |-> names, exc |-> TRUE, calls |-> callsMade, out |-> <<>>]
    IN  IF fail = "geemap.Map"
        THEN Stopped(None, <<>>, <<>>)
        ELSE IF fail = "addLayer Titik Pelatihan"
        THEN Stopped(None, <<>>, << RemoteCall("Map.addLayer", TRUE) >>)
        ELSE IF size <= 1
        THEN [vis_params |-> None, layers |-> titik, exc |-> FALSE, calls |-> << ok >>,
              out |-> << "Koleksi kosong, tidak ada klasifikasi." >>]
        ELSE IF fail = "addLayer Klasifikasi Mean"
        THEN Stopped(vis, titik, << ok, RemoteCall("Map.addLayer", TRUE) >>)
        ELSE IF fail = "centerObject"
        THEN Stopped(vis, both, << ok, ok >>)
        ELSE [vis_params |-> vis, layers |-> both, exc |-> FALSE, calls |-> << ok, ok >>,
              out |-> IF scr = "optimized"
                      THEN << "Layer klasifikasi berhasil ditambahkan ke peta" >> ELSE <<>>]

\* The map section (optimized script lines 143-162, the other script lines
\* 206-224): the map, its first layers, and vis_params.  size is
\* collection_size, scr the script.  An exception in the section stops the
\* script with what the statements before it did.  calls lists the
\* Map.addLayer calls of the section; layers holds the names of the layers
\* the scripts add with Map.addLayer, in order (the map library's own base
\* layers and controls are not in it).
section8(size, scr, fail) ==
    LET vis   == Some([min |-> 1, max |-> 5, palette |-> PALET])
        titik == addLayer(<<>>, S_Titik_Pelatihan)
        both  == addLayer(titik, S_Klasifikasi_Mean)
        ok    == RemoteCall("Map.addLayer", FALSE)
        Stopped(v, names, callsMade) ==
            [vis_params |-> v, layers |-> names, exc |-> TRUE, calls |-> callsMade, out |-> <<>>]
    IN  IF fail = "geemap.Map"
        THEN Stopped(None, <<>>, <<>>)
        ELSE IF fail = "addLayer Titik Pelatihan"
        THEN Stopped(None, <<>>, << RemoteCall("Map.addLayer", TRUE) >>)
        ELSE IF size <= 0
        THEN [vis_params |-> None, layers |-> titik, exc |-> FALSE, calls |-> << ok >>,
              out |-> << "Koleksi kosong, tidak ada klasifikasi." >>]
        ELSE IF fail = "addLayer Klasifikasi Mean"
        THEN Stopped(vis, titik, << ok, RemoteCall("Map.addLayer", TRUE) >>)
        ELSE IF fail = "centerObject"
        THEN Stopped(vis, both, << ok, ok >>)
        ELSE [vis_params |-> vis, layers |-> both, exc |-> FALSE, calls |-> << ok, ok >>,
              out |-> IF scr = "optimized"
                      THEN << "Layer klasifikasi berhasil ditambahkan ke peta" >> ELSE <<>>]

Section8 ==
    /\ pc = "section8"
    /\ \E fail \in (IF collection_size > 0 THEN Section8Fails
                    ELSE {"none", "geemap.Map", "addLayer Titik Pelatihan"}) :
        LET r == section8(collection_size, script, fail)
        IN  /\ pc' = IF r.exc THEN "aborted" ELSE "ready"
            /\ vis_params' = r.vis_params
            /\ layers' = r.layers
            /\ op' = "section8"
            /\ arg' = [fail |-> fail]
            /\ ret' = None
            /\ exc' = r.exc
            /\ calls' = r.calls
            /\ out' = r.out
    /\ UNCHANGED <<loaderVars, model, loaded_successfully, script, koleksi_lengkap, hasil_klasifikasi, collection_size, pickerVars>>

\* What reduceRegion(mean).getInfo() returns in tampilkan_klasifikasi: a
\* dictionary that may lack 'classification' or hold None or a number for it.
MeanClassResults ==
    { [k \in {} |-> None], [classification |-> None], [classification |-> Some(0)],
      [classification |-> Some(3)] }

\* tampilkan_klasifikasi computing its statistics before it adds the layer.
tampilkan_klasifikasi_stats_first(hasil, vis, names, mulai, akhir, fail, mean_class) ==
    LET start_date    == strftime(mulai)
        end_date      == strftime(akhir)
        filtered_size == Len(filterDate(hasil, start_date, end_date))
        layer_name    == LayerName(start_date, end_date)
    IN  IF fail = "size"
        THEN Handled(names, << RemoteCall("size().getInfo", TRUE) >>, << "Error" >>)
        ELSE IF filtered_size = 0
        THEN Handled(names, << RemoteCall("size().getInfo", FALSE) >>, << "Tidak ada citra untuk periode" >>)
        ELSE IF fail = "stats"
        THEN Handled(names, << RemoteCall("size().getInfo", FALSE), RemoteCall("reduceRegion().getInfo", TRUE) >>, << "Error" >>)
        ELSE IF vis = None \/ fail = "addLayer"
        THEN Handled(names, << RemoteCall("size().getInfo", FALSE), RemoteCall("reduceRegion().getInfo", FALSE) >>
                            \o (IF vis = None THEN <<>> ELSE << RemoteCall("Map.addLayer", TRUE) >>), << "Error" >>)
        ELSE Handled(addLayer(names, layer_name),
                     << RemoteCall("size().getInfo", FALSE), RemoteCall("reduceRegion().getInfo", FALSE), RemoteCall("Map.addLayer", FALSE) >>,
                     << "Layer berhasil ditambahkan", "Jumlah citra" >>)

\* rice_classification_optimized.py, tampilkan_klasifikasi.  fail names the
\* outside call that raises if it is reached ("none": no call raises);
\* mean_class is what the statistics query returns.
tampilkan_klasifikasi(hasil, vis, names, mulai, akhir, fail, mean_class) ==
    LET start_date    == strftime(mulai)
        end_date      == strftime(akhir)
        filtered_size == Len(filterDate(hasil, start_date, end_date))
        layer_name    == LayerName(start_date, end_date)
        sizeOk        == RemoteCall("size().getInfo", FALSE)
        added         == RemoteCall("Map.addLayer", FALSE)
    IN  IF fail = "size"
        THEN Handled(names, << RemoteCall("size().getInfo", TRUE) >>, << "Error" >>)
        ELSE IF filtered_size = 0
        THEN Handled(names, << sizeOk >>, << "Tidak ada citra untuk periode" >>)
        ELSE IF vis = None
        THEN Handled(names, << sizeOk >>, << "Error" >>)
        ELSE IF fail = "addLayer"
        THEN Handled(names, << sizeOk, RemoteCall("Map.addLayer", TRUE) >>, << "Error" >>)
        ELSE IF fail = "stats"
        THEN Handled(addLayer(names, layer_name),
                     << sizeOk, added, RemoteCall("reduceRegion().getInfo", TRUE) >>,
                     << "Layer berhasil ditambahkan", "Jumlah citra", "Error" >>)
        ELSE Handled(addLayer(names, layer_name),
                     << sizeOk, added, RemoteCall("reduceRegion().getInfo", FALSE) >>,
                     << "Layer berhasil ditambahkan", "Jumlah citra" >>
                     \o (IF "classification" \in DOMAIN mean_class /\ Truthy(mean_class["classification"])
                         THEN << "Rata-rata kelas" >> ELSE <<>>))

\* rice_classification_with_existing_model.py, tampilkan_klasifikasi.
tampilkan_klasifikasi_existing(hasil, vis, names, mulai, akhir, fail) ==
    LET start_date    == strftime(mulai)
        end_date      == strftime(akhir)
        filtered_size == Len(filterDate(hasil, start_date, end_date))
        layer_name    == LayerName(start_date, end_date)
        sizeOk        == RemoteCall("size().getInfo", FALSE)
    IN  IF fail = "size"
        THEN Handled(names, << RemoteCall("size().getInfo", TRUE) >>, << "Error" >>)
        ELSE IF filtered_size = 0
        THEN Handled(names, << sizeOk >>, << "Tidak ada citra untuk periode" >>)
        ELSE IF vis = None
        THEN Handled(names, << sizeOk >>, << "Error" >>)
        ELSE IF fail = "addLayer"
        THEN Handled(names, << sizeOk, RemoteCall("Map.addLayer", TRUE) >>, << "Error" >>)
        ELSE Handled(addLayer(names, layer_name),
                     << sizeOk, RemoteCall("Map.addLayer", FALSE) >>,
                     << "Layer berhasil ditambahkan", "Jumlah citra" >>)

\* What Map.layers.keys() does, which the map library decides: it returns
\* the layers' names (layers kept by name), or Map.layers has no keys (it
\* is a tuple of layer objects) and AttributeError is raised, which the
\* output widget's context shows and suppresses, or lets through.
KeysOutcomes == {"names", "AttributeError shown", "AttributeError raised"}

\* rice_classification_optimized.py, clear_layers.  No try surrounds its
\* statements.
clear_layers(names, keys) ==
    IF keys = "names"
    THEN Handled(SelectSeq(names, LAMBDA name : ~(Contains(name, S_Klasifikasi) /\ name # S_Klasifikasi_Mean)),
                 << RemoteCall("Map.layers.keys", FALSE) >>
                 \o [i \in 1..Len(SelectSeq(names, LAMBDA name : Contains(name, S_Klasifikasi) /\ name # S_Klasifikasi_Mean)) |->
                        RemoteCall("Map.remove_layer", FALSE)],
                 << "Layer klasifikasi temporal berhasil dihapus" >>)
    ELSE [layers |-> names, ret |-> None, exc |-> keys = "AttributeError raised",
          calls |-> << RemoteCall("Map.layers.keys", TRUE) >>, out |-> <<>>]

Callback(name, input, r) ==
    /\ layers' = r.layers
    /\ op' = name
    /\ arg' = input
    /\ ret' = r.ret
    /\ exc' = r.exc
    /\ calls' = r.calls
    /\ out' = r.out
    /\ UNCHANGED <<loaderVars, scriptVars, script, koleksi_lengkap, hasil_klasifikasi, collection_size, vis_params, pickerVars>>

\* A click on 'Tampilkan Klasifikasi', optimized script.
TampilkanKlasifikasi ==
    /\ pc = "ready"
    /\ script = "optimized"
    /\ \E fail \in {"none", "size", "addLayer", "stats"} :
        \E mean_class \in (IF fail = "none" THEN MeanClassResults ELSE {[k \in {} |-> None]}) :
            Callback("tampilkan_klasifikasi", [fail |-> fail, mean_class |-> mean_class],
                     tampilkan_klasifikasi(hasil_klasifikasi, vis_params, layers, tanggal_mulai, tanggal_akhir, fail, mean_class))

\* A click on 'Tampilkan Klasifikasi', script with the existing model.
TampilkanKlasifikasiExisting ==
    /\ pc = "ready"
    /\ script = "existing"
    /\ \E fail \in {"none", "size", "addLayer"} :
        Callback("tampilkan_klasifikasi", [fail |-> fail, mean_class |-> [k \in {} |-> None]],
                 tampilkan_klasifikasi_existing(hasil_klasifikasi, vis_params, layers, tanggal_mulai, tanggal_akhir, fail))

\* A click on 'Clear Layers'.
ClearLayers ==
    /\ pc = "ready"
    /\ script = "optimized"
    /\ \E keys \in KeysOutcomes :
        Callback("clear_layers", [keys |-> keys], clear_layers(layers, keys))

\* The user picks a date in one of the two pickers.
Picked ==
    /\ op' = "pilih_tanggal"
    /\ arg' = None
    /\ ret' = None
    /\ exc' = FALSE
    /\ calls' = <<>>
    /\ out' = <<>>
    /\ UNCHANGED <<loaderVars, scriptVars, mapVars>>

PilihTanggalMulai ==
    /\ pc = "ready"
    /\ \E value \in PickerDates \ {tanggal_mulai} :
        /\ tanggal_mulai' = value
        /\ UNCHANGED tanggal_akhir
    /\ Picked

PilihTanggalAkhir ==
    /\ pc = "ready"
    /\ \E value \in PickerDates \ {tanggal_akhir} :
        /\ tanggal_akhir' = value
        /\ UNCHANGED tanggal_mulai
    /\ Picked

NextMap ==
    \/ Section7
    \/ Section8
    \/ TampilkanKlasifikasi
    \/ TampilkanKlasifikasiExisting
    \/ ClearLayers
    \/ PilihTanggalMulai
    \/ PilihTanggalAkhir

SpecMap == InitMap /\ [][NextMap]_vars

(***************************************************************************)
(* Section 12 of the optimized script: analisis_komprehensif and           *)
(* export_hasil_klasifikasi.  Both read hasil_klasifikasi and talk to the  *)
(* engine; neither changes the script's variables.  A printed line is      *)
(* <<text, value>>, value being the number printed with it, if any.        *)
(***************************************************************************)
LABEL == << "Unknown", "Vegetatif 1", "Vegetatif 2", "Generatif", "Panen", "Bera" >>

Line(text, value) == << text, value >>

Returned(value, callsMade, printed) ==
    [ret |-> value, exc |-> FALSE, calls |-> callsMade, out |-> printed]

\* Python's truth value of a dictionary or None.
TruthyDict(v) == v # None /\ DOMAIN v[1] # {}

S_to == << " ", "t", "o", " " >>

S_2024_01_01 == <<"2", "0", "2", "4", "-", "0", "1", "-", "0", "1">>
S_2024_06_16 == <<"2", "0", "2", "4", "-", "0", "6", "-", "1", "6">>
S_2024_12_31 == <<"2", "0", "2", "4", "-", "1", "2", "-", "3", "1">>

\* The date ranges the functions are called with: the default, its two
\* parts around 2024-06-16, and a range that ends before it starts.
DateRanges ==
    { <<S_2024_01_01, S_2024_12_31>>, <<S_2024_01_01, S_2024_06_16>>,
      <<S_2024_06_16, S_2024_12_31>>, <<S_2024_12_31, S_2024_01_01>> }

\* What the statistics query of analisis_komprehensif returns: no key, the
\* four statistics as numbers, or statistics of a region without valid
\* pixels (None).
StatKeys == << "classification_mean", "classification_stdDev", "classification_min", "classification_max" >>

StatsResults ==
    { [k \in {} |-> None],
      [k \in Range(StatKeys) |-> Some(3)],
      [k \in Range(StatKeys) |-> IF k = "classification_mean" THEN Some(2) ELSE None],
      [k \in Range(StatKeys) |-> None] }

\* Lists of bucket counts (at most maxBuckets = 6 of them).
HistogramLists == { <<>>, <<0>>, <<3>>, <<3, 0>>, <<0, 3>>, <<2, 0, 5>> }

\* What the histogram query returns: no key, None for the band, a
\* dictionary without 'histogram', or one with the list of bucket counts.
HistogramResults ==
    { [k \in {} |-> None], [classification |-> None],
      [classification |-> Some([k \in {} |-> None])],
      [classification |-> Some([bucketWidth |-> 1])] }
    \cup { [classification |-> Some([bucketWidth |-> 1, histogram |-> h])] : h \in HistogramLists }

\* The statistics lines printed before a None value stops the formatting.
RECURSIVE PrintStats(_, _)
PrintStats(stats, i) ==
    IF i > Len(StatKeys) THEN [lines |-> <<>>, raised |-> FALSE]
    ELSE IF StatKeys[i] \notin DOMAIN stats THEN PrintStats(stats, i + 1)
    ELSE IF stats[StatKeys[i]] = None THEN [lines |-> <<>>, raised |-> TRUE]
    ELSE LET rest == PrintStats(stats, i + 1)
         IN  [lines |-> << Line(StatKeys[i], stats[StatKeys[i]]) >> \o rest.lines, raised |-> rest.raised]

\* for i, count in enumerate(hist_data['histogram']): the lines it prints,
\* and count as the loop leaves it.
RECURSIVE PrintHistogram(_, _, _)
PrintHistogram(list, i, count) ==
    IF i >= Len(list) THEN [lines |-> <<>>, count |-> count]
    ELSE LET bucket     == list[i + 1]
             class_name == IF i + 1 < Len(LABEL) THEN LABEL[i + 2] ELSE "Kelas"
             rest       == PrintHistogram(list, i + 1, bucket)
         IN  [lines |-> (IF bucket > 0 THEN << Line(class_name, Some(bucket)) >> ELSE <<>>) \o rest.lines,
              count |-> rest.count]

\* rice_classification_optimized.py, analisis_komprehensif.  fail names the
\* outside call that raises if it is reached; stats and histogram are what
\* the two reduceRegion queries return.
analisis_komprehensif(hasil, start_date, end_date, fail, stats, histogram) ==
    LET count   == Len(filterDate(hasil, start_date, end_date))
        header  == << Line("ANALISIS KOMPREHENSIF PERIODE", None) >>
        error   == << Line("Error dalam analisis", None) >>
        sizeOk  == RemoteCall("size().getInfo", FALSE)
        statsOk == RemoteCall("reduceRegion(stats).getInfo", FALSE)
        printed == PrintStats(stats, 1)
        lines   == header \o << Line("STATISTIK KLASIFIKASI", None), Line("Jumlah citra", Some(count)) >> \o printed.lines
        loop    == IF "classification" \in DOMAIN histogram
                      /\ TruthyDict(histogram["classification"])
                      /\ "histogram" \in DOMAIN histogram["classification"][1]
                   THEN PrintHistogram(histogram["classification"][1]["histogram"], 0, count)
                   ELSE [lines |-> <<>>, count |-> count]
    IN  IF fail = "size"
        THEN Returned(None, << RemoteCall("size().getInfo", TRUE) >>, header \o error)
        ELSE IF count = 0
        THEN Returned(None, << sizeOk >>, header \o << Line("Tidak ada data untuk periode", None) >>)
        ELSE IF fail = "stats"
        THEN Returned(None, << sizeOk, RemoteCall("reduceRegion(stats).getInfo", TRUE) >>, header \o error)
        ELSE IF printed.raised
        THEN Returned(None, << sizeOk, statsOk >>, lines \o error)
        ELSE IF fail = "histogram"
        THEN Returned(None, << sizeOk, statsOk, RemoteCall("reduceRegion(histogram).getInfo", TRUE) >>, lines \o error)
        ELSE Returned(Some([period |-> start_date \o S_to \o end_date, image_count |-> loop.count,
                            statistics |-> stats, histogram |-> histogram]),
                      << sizeOk, statsOk, RemoteCall("reduceRegion(histogram).getInfo", FALSE) >>,
                      lines \o << Line("DISTRIBUSI KELAS", None) >> \o loop.lines)

S_Klasifikasi_Padi == <<"K", "l", "a", "s", "i", "f", "i", "k", "a", "s", "i", "_", "P", "a", "d", "i", "_">>
S_to_ == << "_", "t", "o", "_" >>
S_scale == << "_", "s", "c", "a", "l", "e" >>

\* f'Klasifikasi_Padi_{start_date}_to_{end_date}_scale{scale}m'
Filename(start_date, end_date, scale) ==
    S_Klasifikasi_Padi \o start_date \o S_to_ \o end_date \o S_scale \o str(scale) \o << "m" >>

Scales == {10, 30}

Folders == {"GEE_Export_Padi", "Lainnya"}

export_config(start_date, end_date, scale, folder) ==
    [image |-> "filtered.mean()", description |-> Filename(start_date, end_date, scale),
     folder |-> folder, scale |-> scale, region |-> "titik_pelatihan.geometry().bounds()",
     maxPixels |-> 1000000000, crs |-> "EPSG:4326", fileFormat |-> "GeoTIFF"]

\* ee.batch.Export.image.toDrive(**export_config)
toDrive(config) == [config |-> config]

\* export_hasil_klasifikasi without its test for an empty selection.
export_hasil_klasifikasi_no_empty_test(hasil, start_date, end_date, scale, folder, fail) ==
    LET count     == Len(filterDate(hasil, start_date, end_date))
        task      == toDrive(export_config(start_date, end_date, scale, folder))
        header    == << Line("EKSPOR HASIL KLASIFIKASI", None) >>
        error     == << Line("Error dalam ekspor", None) >>
        sizeOk    == RemoteCall("size().getInfo", FALSE)
        created   == RemoteCall("Export.image.toDrive", FALSE)
        started   == RemoteCall("task.start", FALSE)
        report    == << Line("Ekspor berhasil dimulai", None), Line("Folder", None), Line("Filename", None),
                        Line("Scale", Some(scale)), Line("Jumlah citra", Some(count)) >>
    IN  IF fail = "size"
        THEN Returned(None, << RemoteCall("size().getInfo", TRUE) >>, header \o error)
        ELSE IF fail = "toDrive"
        THEN Returned(None, << sizeOk, RemoteCall("Export.image.toDrive", TRUE) >>, header \o error)
        ELSE IF fail = "start"
        THEN Returned(None, << sizeOk, created, RemoteCall("task.start", TRUE) >>, header \o error)
        ELSE IF fail = "status"
        THEN Returned(None, << sizeOk, created, started, RemoteCall("task.status", TRUE) >>, header \o report \o error)
        ELSE Returned(Some(task), << sizeOk, created, started, RemoteCall("task.status", FALSE) >>,
                      header \o report \o << Line("Status", None), Line("Cek Google Drive", None) >>)

\* rice_classification_optimized.py, export_hasil_klasifikasi.  fail names
\* the outside call that raises if it is reached.
export_hasil_klasifikasi(hasil, start_date, end_date, scale, folder, fail) ==
    LET count     == Len(filterDate(hasil, start_date, end_date))
        task      == toDrive(export_config(start_date, end_date, scale, folder))
        header    == << Line("EKSPOR HASIL KLASIFIKASI", None) >>
        error     == << Line("Error dalam ekspor", None) >>
        sizeOk    == RemoteCall("size().getInfo", FALSE)
        created   == RemoteCall("Export.image.toDrive", FALSE)
        started   == RemoteCall("task.start", FALSE)
        report    == << Line("Ekspor berhasil dimulai", None), Line("Folder", None), Line("Filename", None),
                        Line("Scale", Some(scale)), Line("Jumlah citra", Some(count)) >>
    IN  IF fail = "size"
        THEN Returned(None, << RemoteCall("size().getInfo", TRUE) >>, header \o error)
        ELSE IF count = 0
        THEN Returned(None, << sizeOk >>, header \o << Line("Tidak ada data untuk diekspor", None) >>)
        ELSE IF fail = "toDrive"
        THEN Returned(None, << sizeOk, RemoteCall("Export.image.toDrive", TRUE) >>, header \o error)
        ELSE IF fail = "start"
        THEN Returned(None, << sizeOk, created, RemoteCall("task.start", TRUE) >>, header \o error)
        ELSE IF fail = "status"
        THEN Returned(None, << sizeOk, created, started, RemoteCall("task.status", TRUE) >>, header \o report \o error)
        ELSE Returned(Some(task), << sizeOk, created, started, RemoteCall("task.status", FALSE) >>,
                      header \o report \o << Line("Status", None), Line("Cek Google Drive", None) >>)

InitAnalysis ==
    /\ pc = "section7"
    /\ script = "optimized"
    /\ model = TrainedModel
    /\ loaded_successfully = FALSE
    /\ loaded_model = None
    /\ ee_model = None
    /\ koleksi_lengkap \in Collections
    /\ hasil_klasifikasi = <<>>
    /\ collection_size = 0
    /\ vis_params = None
    /\ layers = <<>>
    /\ tanggal_mulai = <<2024, 1, 1>>
    /\ tanggal_akhir = <<2024, 12, 31>>
    /\ op = "start"
    /\ arg = None
    /\ ret = None
    /\ exc = FALSE
    /\ calls = <<>>
    /\ out = <<>>

Call(name, input, r) ==
    /\ op' = name
    /\ arg' = input
    /\ ret' = r.ret
    /\ exc' = r.exc
    /\ calls' = r.calls
    /\ out' = r.out
    /\ UNCHANGED <<loaderVars, scriptVars, mapVars, pickerVars>>

\* A call of analisis_komprehensif(start_date, end_date).
AnalisisKomprehensif ==
    /\ pc = "ready"
    /\ \E range \in DateRanges :
        \E fail \in {"none", "size", "stats", "histogram"} :
            \E stats \in (IF fail \in {"none", "histogram"} THEN StatsResults ELSE {[k \in {} |-> None]}) :
                \E histogram \in (IF fail = "none" /\ (\A k \in DOMAIN stats : stats[k] # None)
                                  THEN HistogramResults ELSE {[k \in {} |-> None]}) :
                    Call("analisis_komprehensif",
                         [start_date |-> range[1], end_date |-> range[2], fail |-> fail,
                          stats |-> stats, histogram |-> histogram],
                         analisis_komprehensif(hasil_klasifikasi, range[1], range[2], fail, stats, histogram))

\* A call of export_hasil_klasifikasi(start_date, end_date, scale, folder).
ExportHasilKlasifikasi ==
    /\ pc = "ready"
    /\ \E range \in DateRanges, scale \in Scales, folder \in Folders :
        \E fail \in {"none", "size", "toDrive", "start", "status"} :
            Call("export_hasil_klasifikasi",
                 [start_date |-> range[1], end_date |-> range[2], scale |-> scale,
                  folder |-> folder, fail |-> fail],
                 export_hasil_klasifikasi(hasil_klasifikasi, range[1], range[2], scale, folder, fail))

NextAnalysis ==
    \/ Section7
    \/ Section8
    \/ AnalisisKomprehensif

\* The script with analisis_komprehensif called any number of times.
SpecAnalysis == InitAnalysis /\ [][NextAnalysis]_vars

NextExport ==
    \/ Section7
    \/ Section8
    \/ ExportHasilKlasifikasi

\* The script with export_hasil_klasifikasi called any number of times.
SpecExport == InitAnalysis /\ [][NextExport]_vars

(***************************************************************************)
(* The module-level helpers of model_loader_utils.py, called on their own. *)
(***************************************************************************)
\* model_loader_utils.py, load_and_create_ee_model.  The value returned is
\* the pair <<loaded_model, ee_model>>; an exception that leaves
\* create_ee_model (line 172, no try) leaves the function.
load_and_create_ee_model(bands_selected, training_data, pickle, joblib, train_raises, maxDepth_rejected) ==
    LET loader == ModelLoader(bands_selected)
        r1     == load_model(loader, pickle, joblib)
        r2     == validate_model_compatibility(r1.self)
        r3     == create_ee_model(r2.self, training_data, train_raises, maxDepth_rejected)
    IN  IF ~r1.ret
        THEN [ret |-> << None, None >>, exc |-> FALSE,
              calls |-> << Entry("load_model") >> \o r1.calls, out |-> r1.out]
        ELSE [ret |-> IF r3.exc THEN None ELSE << r3.self.loaded_model, r3.ret >>,
              exc |-> r3.exc,
              calls |-> << Entry("load_model") >> \o r1.calls \o << Entry("validate_model_compatibility") >>
                        \o << Entry("create_ee_model") >> \o r3.calls,
              out |-> r1.out \o r2.out
                      \o (IF r2.ret THEN <<>> ELSE << "Melanjutkan meskipun ada warning kompatibilitas" >>)
                      \o r3.out]

InitHelpers ==
    /\ ScriptIdle
    /\ loaded_model = None
    /\ ee_model = None
    /\ op = "start"
    /\ arg = None
    /\ ret = None
    /\ exc = FALSE
    /\ calls = <<>>
    /\ out = <<>>

\* A call of load_and_create_ee_model(model_path, BANDS_SELECTED, data_latih).
LoadAndCreateEeModel ==
    /\ pc = "idle"
    /\ \E pickle \in LoadOutcomes :
        \E joblib \in (IF pickle.raised THEN LoadOutcomes ELSE {pickle}) :
            \E o \in EeOutcomes(joblib.value) :
                Call("load_and_create_ee_model",
                     [pickle |-> pickle, joblib |-> joblib, train_raises |-> o[1],
                      maxDepth_rejected |-> o[2]],
                     load_and_create_ee_model(BANDS_SELECTED, data_latih, pickle, joblib, o[1], o[2]))

\* The n_trees a caller passes, if any.
TreeArguments == { None, Some(50) }

\* A call of create_fallback_model(data_latih, BANDS_SELECTED[, n_trees]).
CreateFallbackModel ==
    /\ pc = "idle"
    /\ \E n_trees \in TreeArguments, random \in [data_latih -> RandomValues] :
        \E train_raises \in BOOLEAN, accuracy_raises \in BOOLEAN :
            Call("create_fallback_model",
                 [n_trees |-> n_trees, random |-> random, train_raises |-> train_raises,
                  accuracy_raises |-> accuracy_raises],
                 create_fallback_model(data_latih, BANDS_SELECTED,
                                       IF n_trees = None THEN 200 ELSE n_trees[1],
                                       random, train_raises, accuracy_raises))

NextHelpers == LoadAndCreateEeModel \/ CreateFallbackModel

SpecHelpers == InitHelpers /\ [][NextHelpers]_vars

(***************************************************************************)
(* rice_classification_with_existing_model.py, section 5: unpickle the     *)
(* model file and rebuild a remote classifier from it, or train a new one. *)
(* in is the record of the outside outcomes the section meets: [load,      *)
(* train_raises, random, fallback_train_raises, accuracy_raises].  load is *)
(* what open + pickle.load do: [raised, value], raised being "none",       *)
(* "FileNotFoundError" or "Exception" (any other error).                   *)
(***************************************************************************)
\* Objects the file can hold, as far as this script looks at them (it only
\* probes n_estimators).
ExistingObjects ==
    { o \in Objects : o.attrs \subseteq {"n_estimators", "n_features_in_", "feature_names_in_", "classes_"}
                      /\ o.n_features_in_ \in {0, 7} /\ o.feature_names_in_ \in {<<>>, BandsReversed}
                      /\ (o.attrs \ {"n_estimators"}) \in {{}, {"n_features_in_", "feature_names_in_", "classes_"}} }

ExistingLoadOutcomes ==
    { [raised |-> "FileNotFoundError", value |-> None], [raised |-> "Exception", value |-> None] }
    \cup { [raised |-> "none", value |-> v] : v \in {None} \cup { Some(o) : o \in ExistingObjects } }

\* hasattr(loaded_model, 'n_estimators'), loaded_model possibly None.
hasattr_n_estimators(value) == value # None /\ hasattr(value[1], "n_estimators")

\* FallbackBlock with a failure of its train call swallowed.
FallbackBlock_train_swallowed(path, random, train_raises, accuracy_raises) ==
    LET train_set == {r \in data_latih : random[r] < 80}
        test_set  == {r \in data_latih : random[r] >= 80}
        made      == [fn |-> "ee.Classifier.smileRandomForest", numberOfTrees |-> 200, maxDepth |-> None]
        trainCall == [fn |-> "train", features |-> train_set, classProperty |-> "FaseNumerik",
                      inputProperties |-> BANDS_SELECTED, raised |-> train_raises]
        fitted    == train(smileRandomForest(200, None), train_set, "FaseNumerik", BANDS_SELECTED)
    IN  IF train_raises
        THEN [model |-> None, bound |-> FALSE, exc |-> FALSE, paths |-> <<>>,
              calls |-> << Entry(path), made, trainCall >>,
              out |-> << "Melatih model baru sebagai fallback" >>]
        ELSE [model |-> Some(fitted), bound |-> TRUE, exc |-> accuracy_raises, paths |-> << path >>,
              calls |-> << Entry(path), made, trainCall,
                           [fn |-> "accuracy", features |-> test_set, raised |-> accuracy_raises] >>,
              out |-> << "Melatih model baru sebagai fallback", "Model fallback berhasil dilatih" >>
                      \o (IF accuracy_raises THEN <<>> ELSE << "Akurasi" >>)]

\* One of the two identical fallback blocks (lines 109-143 and 145-179):
\* split, train on train_set, evaluate.  No try surrounds them.
FallbackBlock(path, random, train_raises, accuracy_raises) ==
    LET train_set == {r \in data_latih : random[r] < 80}
        test_set  == {r \in data_latih : random[r] >= 80}
        made      == [fn |-> "ee.Classifier.smileRandomForest", numberOfTrees |-> 200, maxDepth |-> None]
        trainCall == [fn |-> "train", features |-> train_set, classProperty |-> "FaseNumerik",
                      inputProperties |-> BANDS_SELECTED, raised |-> train_raises]
        fitted    == train(smileRandomForest(200, None), train_set, "FaseNumerik", BANDS_SELECTED)
    IN  IF train_raises
        THEN [model |-> None, bound |-> FALSE, exc |-> TRUE, paths |-> <<>>,
              calls |-> << Entry(path), made, trainCall >>,
              out |-> << "Melatih model baru sebagai fallback" >>]
        ELSE [model |-> Some(fitted), bound |-> TRUE, exc |-> accuracy_raises, paths |-> << path >>,
              calls |-> << Entry(path), made, trainCall,
                           [fn |-> "accuracy", features |-> test_set, raised |-> accuracy_raises] >>,
              out |-> << "Melatih model baru sebagai fallback", "Model fallback berhasil dilatih" >>
                      \o (IF accuracy_raises THEN <<>> ELSE << "Akurasi" >>)]

\* Lines 61-179.  The result holds model afterwards (None: the name is not
\* bound), whether the script died of an exception, the training paths that
\* bound model, in order, and the calls and messages of the section.
section5_existing(in) ==
    LET n_trees   == in.load.value[1].n_estimators
        made      == [fn |-> "ee.Classifier.smileRandomForest", numberOfTrees |-> n_trees, maxDepth |-> None]
        trainCall == [fn |-> "train", features |-> data_latih, classProperty |-> "FaseNumerik",
                      inputProperties |-> BANDS_SELECTED, raised |-> in.train_raises]
        rebuilt   == train(smileRandomForest(n_trees, None), data_latih, "FaseNumerik", BANDS_SELECTED)
        generic   == FallbackBlock("except Exception", in.random, in.fallback_train_raises, in.accuracy_raises)
        notfound  == FallbackBlock("except FileNotFoundError", in.random, in.fallback_train_raises, in.accuracy_raises)
        loading   == "Memuat model Random Forest yang sudah ada..."
        After(first, firstPaths, calls0, out0, f) ==
            [model |-> IF f.bound THEN f.model ELSE first, exc |-> f.exc,
             paths |-> firstPaths \o f.paths, calls |-> calls0 \o f.calls,
             out |-> << loading >> \o out0 \o f.out]
    IN  IF in.load.raised = "FileNotFoundError"
        THEN After(None, <<>>, << Entry("pickle.load") >>, << "File model tidak ditemukan" >>, notfound)
        ELSE IF in.load.raised = "Exception"
        THEN After(None, <<>>, << Entry("pickle.load") >>, << "Error saat memuat model" >>, generic)
        ELSE IF hasattr_n_estimators(in.load.value)
        THEN IF in.train_raises
             THEN After(Some(smileRandomForest(n_trees, None)), << "rebuilt, untrained" >>,
                        << Entry("pickle.load"), made, trainCall >>,
                        << "Model berhasil dimuat", "Jumlah trees dalam model", "Error saat memuat model" >>,
                        generic)
             ELSE [model |-> Some(rebuilt), exc |-> FALSE, paths |-> << "rebuilt" >>,
                   calls |-> << Entry("pickle.load"), made, trainCall >>,
                   out |-> << loading, "Model berhasil dimuat", "Jumlah trees dalam model",
                              "Model Earth Engine berhasil dibuat dengan parameter yang sama" >>]
        ELSE After(None, <<>>,
                   << Entry("pickle.load"),
                      [fn |-> "ee.Classifier.smileRandomForest", numberOfTrees |-> 200, maxDepth |-> None],
                      [fn |-> "NameError: data_latih"] >>,
                   << "Model berhasil dimuat", "Model yang dimuat bukan Random Forest sklearn standard",
                      "Error saat memuat model" >>,
                   generic)

Section5Inputs ==
    { [load |-> ld, train_raises |-> tr, random |-> rnd, fallback_train_raises |-> ftr, accuracy_raises |-> ar] :
        ld \in ExistingLoadOutcomes, tr \in BOOLEAN, rnd \in [data_latih -> RandomValues],
        ftr \in BOOLEAN, ar \in BOOLEAN }

InitExisting ==
    /\ pc = "section5"
    /\ model = None
    /\ loaded_successfully = FALSE
    /\ script = "existing"
    /\ koleksi_lengkap \in { c \in Collections : Len(c) <= 1 }
    /\ hasil_klasifikasi = <<>>
    /\ collection_size = 0
    /\ vis_params = None
    /\ layers = <<>>
    /\ tanggal_mulai = <<2024, 1, 1>>
    /\ tanggal_akhir = <<2024, 12, 31>>
    /\ loaded_model = None
    /\ ee_model = None
    /\ op = "start"
    /\ arg = None
    /\ ret = None
    /\ exc = FALSE
    /\ calls = <<>>
    /\ out = <<>>

\* Section 5 of the script with the existing model.  loaded_model is the
\* script's global of that name.
Section5Existing ==
    /\ pc = "section5"
    /\ \E in \in Section5Inputs :
        LET r == section5_existing(in)
        IN  /\ pc' = IF r.exc THEN "aborted" ELSE "section7"
            /\ model' = r.model
            /\ loaded_model' = in.load.value
            /\ op' = "section5"
            /\ arg' = in
            /\ ret' = r.paths
            /\ exc' = r.exc
            /\ calls' = r.calls
            /\ out' = r.out
            /\ UNCHANGED <<ee_model, loaded_successfully, mapVars, pickerVars>>

NextExisting ==
    \/ Section5Existing
    \/ Section7
    \/ Section8

\* The script with the existing model, from section 5 to its map.
SpecExisting == InitExisting /\ [][NextExisting]_vars

(***************************************************************************)
(* Claims about ModelLoader, checked under SpecLoader.                     *)
(***************************************************************************)
Loaded == loaded_model[1]

\* C1: load_model calls pickle first and joblib only after pickle raised; it
\* returns True exactly when one of the two attempts succeeded, and then
\* loaded_model is what that attempt returned; it returns False exactly when
\* both raised; no exception leaves it.
C1_LoadModel ==
    op = "load_model" =>
        /\ exc = FALSE
        /\ ret \in BOOLEAN
        /\ Len(calls) \in {1, 2}
        /\ calls[1].fn = "pickle.load"
        /\ (Len(calls) = 2) <=> calls[1].raised
        /\ Len(calls) = 2 => calls[2].fn = "joblib.load"
        /\ ret <=> (\E i \in 1..Len(calls) : ~calls[i].raised)
        /\ ret => /\ ~calls[Len(calls)].raised
                  /\ loaded_model = calls[Len(calls)].value
        /\ ~ret <=> (Len(calls) = 2 /\ calls[1].raised /\ calls[2].raised)

\* pickle raised, joblib returned an object, and that object is loaded.
C1_Witness ==
    /\ op = "load_model"
    /\ Len(calls) = 2
    /\ ret = TRUE
    /\ loaded_model # None
    /\ loaded_model = calls[2].value

\* C3: validate_model_compatibility returns False when nothing is loaded;
\* otherwise True iff (no n_features_in_, or it equals the number of bands)
\* and (no feature_names_in_, or its names are the bands as a set); a count
\* mismatch is reported before, and instead of, a name mismatch.
C3_CountOk == ~hasattr(Loaded, "n_features_in_") \/ Loaded.n_features_in_ = Len(BANDS_SELECTED)

C3_NamesOk ==
    \/ ~hasattr(Loaded, "feature_names_in_")
    \/ Range(Loaded.feature_names_in_) = Range(BANDS_SELECTED)

C3_Validate ==
    op = "validate_model_compatibility" =>
        /\ exc = FALSE
        /\ loaded_model = None => ret = FALSE
        /\ loaded_model # None =>
            /\ ret = (C3_CountOk /\ C3_NamesOk)
            /\ ~C3_CountOk => out = << "Warning: Model dilatih dengan jumlah fitur lain" >>
            /\ (C3_CountOk /\ ~C3_NamesOk) => out[1] = "Warning: Fitur model tidak cocok"

\* Both checks would fail, and the count mismatch is the one reported.
C3_Witness ==
    /\ op = "validate_model_compatibility"
    /\ loaded_model # None
    /\ ~C3_CountOk
    /\ ~C3_NamesOk
    /\ ret = FALSE
    /\ out = << "Warning: Model dilatih dengan jumlah fitur lain" >>

\* C4, as claimed: for a loaded RandomForestClassifier create_ee_model builds
\* the remote classifier with numberOfTrees = n_estimators and with
\* maxDepth = max_depth whenever the loaded model has a max_depth set (not
\* None); for any other loaded object it builds 100 trees with no depth
\* limit.  In both cases exactly one train call follows, with classProperty
\* 'FaseNumerik' and inputProperties = bands_selected.
C4_AsClaimed ==
    (op = "create_ee_model" /\ loaded_model # None) =>
        /\ Len(calls) = 2
        /\ calls[1].fn = "ee.Classifier.smileRandomForest"
        /\ IF isinstance_RandomForestClassifier(Loaded)
           THEN /\ hasattr(Loaded, "n_estimators") => calls[1].numberOfTrees = Loaded.n_estimators
                /\ (hasattr(Loaded, "max_depth") /\ Loaded.max_depth # None)
                      => calls[1].maxDepth = Loaded.max_depth
           ELSE /\ calls[1].numberOfTrees = 100
                /\ calls[1].maxDepth = None
        /\ calls[2].fn = "train"
        /\ calls[2].classProperty = "FaseNumerik"
        /\ calls[2].inputProperties = BANDS_SELECTED

\* A random forest with 50 trees and depth 10: the constructor call with the
\* keyword maxDepth raised, the exception left create_ee_model, nothing was
\* built and no train call followed.
C4_Witness ==
    /\ op = "create_ee_model"
    /\ loaded_model # None
    /\ isinstance_RandomForestClassifier(Loaded)
    /\ hasattr(Loaded, "n_estimators") /\ Loaded.n_estimators = 50
    /\ hasattr(Loaded, "max_depth") /\ Loaded.max_depth = Some(10)
    /\ exc
    /\ ret = None
    /\ ee_model = None
    /\ Len(calls) = 1
    /\ calls[1].fn = "ee.Classifier.smileRandomForest"
    /\ calls[1].maxDepth = Some(10)

\* C5: get_model_info returns None iff nothing is loaded; otherwise its
\* dictionary has 'model_type' and 'model_class', and has each further key
\* iff the loaded object has the corresponding attribute; the call changes
\* neither loaded_model nor ee_model.
C5_KeyOf ==
    [n_estimators |-> "n_estimators", max_depth |-> "max_depth",
     n_features_in_ |-> "n_features", feature_names_in_ |-> "feature_names",
     classes_ |-> "classes"]

C5_InfoShape ==
    op = "get_model_info" =>
        /\ exc = FALSE
        /\ (ret = None) <=> (loaded_model = None)
        /\ ret # None =>
            /\ {"model_type", "model_class"} \subseteq DOMAIN ret[1]
            /\ \A a \in AttrNames : (C5_KeyOf[a] \in DOMAIN ret[1]) <=> hasattr(Loaded, a)
            /\ DOMAIN ret[1] \subseteq {"model_type", "model_class"} \cup {C5_KeyOf[a] : a \in AttrNames}

C5_GetModelInfo ==
    /\ []C5_InfoShape
    /\ [][op' = "get_model_info" => (loaded_model' = loaded_model /\ ee_model' = ee_model)]_vars

\* An object with max_depth = None and no fitted-feature attributes was
\* described: 'max_depth' is a key, 'n_features' is not.
C5_Witness ==
    /\ op = "get_model_info"
    /\ ret # None
    /\ hasattr(Loaded, "max_depth") /\ Loaded.max_depth = None
    /\ ~hasattr(Loaded, "n_features_in_")
    /\ "max_depth" \in DOMAIN ret[1]
    /\ "n_features" \notin DOMAIN ret[1]
    /\ ee_model # None

(***************************************************************************)
(* Claims about section 6 of rice_classification_optimized.py, checked     *)
(* under SpecOptimized.                                                    *)
(***************************************************************************)
CallCount(name) == Cardinality({i \in 1..Len(calls) : calls[i].fn = name})

\* The three conditions, read off the section's inputs and the object loaded.
C2_LoadSucceeded == ~arg.pickle.raised \/ ~arg.joblib.raised

C2_Compatible == loaded_model # None /\ C3_CountOk /\ C3_NamesOk

\* create_ee_model was reached and returned a classifier.
C2_Rebuilt ==
    C2_LoadSucceeded /\ C2_Compatible /\ ~arg.train_raises /\ ~arg.maxDepth_rejected

C2_FallbackTrainSet == {r \in data_latih : arg.random[r] < 80}

\* C2, as claimed: the model used is the one rebuilt from the loaded object iff
\* load_model succeeded, validate_model_compatibility returned True and
\* create_ee_model returned a classifier; in every other case
\* create_fallback_model is called exactly once and what it returns is used;
\* loaded_successfully is True exactly in the first case; create_ee_model is
\* never called for a model that failed validation.
C2_AsClaimed ==
    op = "section6" =>
        /\ loaded_successfully <=> C2_Rebuilt
        /\ C2_Rebuilt =>
            /\ exc = FALSE
            /\ CallCount("create_fallback_model") = 0
            /\ CallCount("create_ee_model") = 1
            /\ model # None
            /\ model = ee_model
            /\ model[1].trained
            /\ model[1].features = Some(data_latih)
        /\ ~C2_Rebuilt =>
            /\ CallCount("create_fallback_model") = 1
            /\ exc <=> arg.fallback_train_raises
            /\ ~exc =>
                /\ model # None
                /\ model[1].trained
                /\ model[1].numberOfTrees = 200
                /\ model[1].features = Some(C2_FallbackTrainSet)
        /\ CallCount("create_ee_model") <= 1
        /\ CallCount("create_ee_model") = 1 => (C2_LoadSucceeded /\ C2_Compatible)
        /\ CallCount("validate_model_compatibility") = 1 <=> C2_LoadSucceeded

\* A compatible random forest with a depth was loaded; the constructor call
\* of create_ee_model raised and the exception stopped the script at line
\* 97: create_fallback_model was not called and no model is there to use.
C2_Witness ==
    /\ op = "section6"
    /\ C2_LoadSucceeded
    /\ C2_Compatible
    /\ PassesMaxDepth(loaded_model)
    /\ arg.maxDepth_rejected
    /\ exc
    /\ pc = "aborted"
    /\ CallCount("create_ee_model") = 1
    /\ CallCount("train") = 0
    /\ CallCount("create_fallback_model") = 0
    /\ ~loaded_successfully
    /\ model = None

(***************************************************************************)
(* Claims about konversi_label_numerik, checked under SpecLabel.           *)
(***************************************************************************)
\* The code the claim gives a phase name, whatever its case and padding.
C6_CodeOfWord(w) ==
    CASE w = S_vegetatif_1 -> 1
      [] w = S_vegetatif_2 -> 2
      [] w = S_generatif   -> 3
      [] w = S_panen       -> 4
      [] w = S_bera        -> 5
      [] OTHER             -> 0

C6_SetsOnlyCode(before, after) ==
    /\ DOMAIN after = DOMAIN before \cup {"FaseNumerik"}
    /\ \A k \in DOMAIN before \ {"FaseNumerik"} : after[k] = before[k]
    /\ after["FaseNumerik"] \in 0..5

\* C6: konversi_label_numerik sets 'FaseNumerik' to 1..5 for the five phase
\* names whatever their letter case and surrounding whitespace, and to 0 for
\* every other text; the code is in 0..5; no other property changes; the
\* definitions of the two scripts give the same code.
C6_Konversi ==
    op = "konversi_label_numerik" =>
        /\ exc = FALSE
        /\ C6_SetsOnlyCode(FeatureOf(arg), ret.optimized)
        /\ C6_SetsOnlyCode(FeatureOf(arg), ret.existing)
        /\ ret.optimized["FaseNumerik"] = C6_CodeOfWord(arg.word)
        /\ ret.existing["FaseNumerik"] = ret.optimized["FaseNumerik"]

\* 'PANEN' between whitespace, on a point that had a FaseNumerik, became 4.
C6_Witness ==
    /\ op = "konversi_label_numerik"
    /\ arg.word = S_panen
    /\ arg.case = "upper"
    /\ arg.left # <<>>
    /\ arg.right # <<>>
    /\ "FaseNumerik" \in DOMAIN arg.properties
    /\ ret.optimized["FaseNumerik"] = 4
    /\ ret.optimized["id"] = 17

(***************************************************************************)
(* Claims about the classified collection and the map, checked under       *)
(* SpecMap.  The calendar facts the claims use are written out here, not   *)
(* computed by the model's date operators.                                 *)
(***************************************************************************)
\* The UTC date of each day number an image of the model can carry.
C7_DateText(day) ==
    CASE day = 19722 -> <<"2", "0", "2", "3", "-", "1", "2", "-", "3", "1">>
      [] day = 19723 -> <<"2", "0", "2", "4", "-", "0", "1", "-", "0", "1">>
      [] day = 19890 -> <<"2", "0", "2", "4", "-", "0", "6", "-", "1", "6">>
      [] day = 20088 -> <<"2", "0", "2", "4", "-", "1", "2", "-", "3", "1">>

C7_ImageOk(source, result) ==
    /\ result.bands = << "classification" >>
    /\ "system:time_start" \in DOMAIN result.properties
    /\ result.properties["system:time_start"] = source.properties["system:time_start"]
    /\ "tanggal" \in DOMAIN result.properties
    /\ result.properties["tanggal"] = C7_DateText(source.properties["system:time_start"].day)

\* C7: klasifikasi_collection yields one image per input image; each has the
\* single band 'classification', its input's 'system:time_start', and
\* 'tanggal' = that timestamp as YYYY-MM-dd.
C7_Klasifikasi ==
    pc \in {"section8", "ready", "aborted"} =>
        /\ Len(hasil_klasifikasi) = Len(koleksi_lengkap)
        /\ \A i \in 1..Len(koleksi_lengkap) :
              /\ i \in DOMAIN hasil_klasifikasi
              /\ C7_ImageOk(koleksi_lengkap[i], hasil_klasifikasi[i])

\* Two images were classified, the first taken a millisecond before 2024.
C7_Witness ==
    /\ pc = "ready"
    /\ Len(koleksi_lengkap) = 2
    /\ Len(hasil_klasifikasi) = 2
    /\ koleksi_lengkap[1].properties["system:time_start"] = [day |-> 19722, ms |-> 86399999]
    /\ hasil_klasifikasi[1].properties["tanggal"] = <<"2", "0", "2", "3", "-", "1", "2", "-", "3", "1">>
    /\ hasil_klasifikasi[2].properties["tanggal"] = <<"2", "0", "2", "4", "-", "0", "6", "-", "1", "6">>

\* The day number and the text of each date the pickers can hold.
C8_DayOf(value) ==
    CASE value = <<2024, 1, 1>>   -> 19723
      [] value = <<2024, 6, 16>>  -> 19890
      [] value = <<2024, 12, 31>> -> 20088

C8_TextOf(value) ==
    CASE value = <<2024, 1, 1>>   -> <<"2", "0", "2", "4", "-", "0", "1", "-", "0", "1">>
      [] value = <<2024, 6, 16>>  -> <<"2", "0", "2", "4", "-", "0", "6", "-", "1", "6">>
      [] value = <<2024, 12, 31>> -> <<"2", "0", "2", "4", "-", "1", "2", "-", "3", "1">>

\* The classified images the pickers' range selects: from the start date's
\* midnight on, before the end date's midnight.
C8_Selected ==
    { i \in 1..Len(hasil_klasifikasi) :
        /\ "system:time_start" \in DOMAIN hasil_klasifikasi[i].properties
        /\ C8_DayOf(tanggal_mulai) <= hasil_klasifikasi[i].properties["system:time_start"].day
        /\ hasil_klasifikasi[i].properties["system:time_start"].day < C8_DayOf(tanggal_akhir) }

C8_LayerName ==
    <<"K", "l", "a", "s", "i", "f", "i", "k", "a", "s", "i", " ">> \o C8_TextOf(tanggal_mulai)
    \o <<" ", "s", ".", "d", ".", " ">> \o C8_TextOf(tanggal_akhir)

\* C8, as claimed: when the selected range is empty or a remote call of the
\* click fails, the map's layers are the same after the click.
C8_AsClaimed ==
    [][ (op' = "tampilkan_klasifikasi"
            /\ (C8_Selected = {} \/ \E i \in 1..Len(calls') : calls'[i].raised))
        => Range(layers') = Range(layers) ]_vars

\* C8, amended: a click on 'Tampilkan Klasifikasi' puts the layer
\* 'Klasifikasi <start> s.d. <end>' on the map iff the selected range holds
\* at least one classified image and neither the size query nor the addLayer
\* call fails; otherwise the layers are unchanged.  A failure of the
\* statistics query (optimized script), which comes after the layer was
\* added, leaves the new layer on the map.
C8_Tampilkan ==
    [][ op' = "tampilkan_klasifikasi" =>
            /\ exc' = FALSE
            /\ IF C8_Selected # {} /\ arg'.fail \notin {"size", "addLayer"}
               THEN /\ Range(layers') = Range(layers) \cup {C8_LayerName}
                    /\ layers'[Len(layers')] = C8_LayerName
                    /\ Len(layers') = Cardinality(Range(layers'))
               ELSE layers' = layers ]_vars

\* The statistics query failed and the layer of the click is on the map.
C8_Witness ==
    /\ op = "tampilkan_klasifikasi"
    /\ script = "optimized"
    /\ arg.fail = "stats"
    /\ Len(calls) = 3
    /\ calls[3].raised
    /\ C8_Selected # {}
    /\ layers[Len(layers)] = C8_LayerName
    /\ tanggal_mulai = <<2024, 6, 16>>
    /\ tanggal_akhir = <<2024, 12, 31>>

(***************************************************************************)
(* Claims about export_hasil_klasifikasi, checked under SpecExport, and    *)
(* about analisis_komprehensif, checked under SpecAnalysis.                *)
(***************************************************************************)
\* The day (since 1970-01-01) a date string of a call names.
C9_DayOf(text) ==
    CASE text = <<"2", "0", "2", "4", "-", "0", "1", "-", "0", "1">> -> 19723
      [] text = <<"2", "0", "2", "4", "-", "0", "6", "-", "1", "6">> -> 19890
      [] text = <<"2", "0", "2", "4", "-", "1", "2", "-", "3", "1">> -> 20088

\* The classified images the call's date range selects.
C9_Selected ==
    { i \in DOMAIN hasil_klasifikasi :
        /\ hasil_klasifikasi[i].properties["system:time_start"].day >= C9_DayOf(arg.start_date)
        /\ hasil_klasifikasi[i].properties["system:time_start"].day < C9_DayOf(arg.end_date) }

C9_CallsOf(name) == { i \in DOMAIN calls : calls[i].fn = name }

C9_Raised == \E i \in DOMAIN calls : calls[i].raised

C9_ScaleText == IF arg.scale = 10 THEN <<"1", "0">> ELSE <<"3", "0">>

C9_Description ==
    <<"K", "l", "a", "s", "i", "f", "i", "k", "a", "s", "i", "_", "P", "a", "d", "i", "_">>
    \o arg.start_date \o <<"_", "t", "o", "_">> \o arg.end_date
    \o <<"_", "s", "c", "a", "l", "e">> \o C9_ScaleText \o <<"m">>

\* C9: export_hasil_klasifikasi lets no exception out.  For a date range
\* that selects no classified image it returns None and neither creates nor
\* starts a task.  For a range that selects some image, when no call raises,
\* it creates one task, starts it once, and returns it (described by the
\* dates and the scale, for the folder asked for).  When a call raises it
\* returns None.  A task is only ever started after the size query
\* answered, for a non-empty selection.
C9_Export ==
    op = "export_hasil_klasifikasi" =>
        /\ exc = FALSE
        /\ Cardinality(C9_CallsOf("Export.image.toDrive")) <= 1
        /\ Cardinality(C9_CallsOf("task.start")) <= 1
        /\ (C9_Selected = {} =>
               /\ ret = None
               /\ C9_CallsOf("Export.image.toDrive") = {}
               /\ C9_CallsOf("task.start") = {})
        /\ (C9_Selected # {} /\ ~C9_Raised =>
               /\ Cardinality(C9_CallsOf("Export.image.toDrive")) = 1
               /\ Cardinality(C9_CallsOf("task.start")) = 1
               /\ \A i \in C9_CallsOf("Export.image.toDrive"), j \in C9_CallsOf("task.start") : i < j
               /\ ret # None
               /\ ret[1].config.description = C9_Description
               /\ ret[1].config.folder = arg.folder
               /\ ret[1].config.scale = arg.scale)
        /\ (C9_Raised => ret = None)
        /\ (C9_CallsOf("task.start") # {} =>
               /\ C9_Selected # {}
               /\ \A j \in C9_CallsOf("task.start") :
                    \E i \in 1..(j - 1) : calls[i].fn = "size().getInfo" /\ ~calls[i].raised)

\* An export of the second half of 2024 at scale 30 that started its task.
C9_Witness ==
    /\ op = "export_hasil_klasifikasi"
    /\ arg.start_date = <<"2", "0", "2", "4", "-", "0", "6", "-", "1", "6">>
    /\ arg.end_date = <<"2", "0", "2", "4", "-", "1", "2", "-", "3", "1">>
    /\ arg.scale = 30
    /\ C9_Selected # {}
    /\ ret # None
    /\ C9_CallsOf("task.start") # {}

\* An exception was raised inside analisis_komprehensif: by a call to the
\* engine, or by formatting a statistic that is None.
C10_Raised ==
    \/ C9_Raised
    \/ /\ C9_Selected # {}
       /\ arg.fail \notin {"size", "stats"}
       /\ \E k \in DOMAIN arg.stats : arg.stats[k] = None

\* C10: analisis_komprehensif returns None exactly when the date range
\* selects no classified image or an exception was raised; otherwise it
\* returns a dictionary whose 'image_count' is the number of selected
\* images, the number it printed as 'Jumlah citra', whatever the histogram
\* query returned.
C10_AsClaimed ==
    op = "analisis_komprehensif" =>
        /\ exc = FALSE
        /\ (ret = None <=> (C9_Selected = {} \/ C10_Raised))
        /\ (ret # None =>
               /\ ret[1].image_count = Cardinality(C9_Selected)
               /\ \E i \in DOMAIN out : out[i] = <<"Jumlah citra", Some(Cardinality(C9_Selected))>>)

\* An analysis that printed the number of selected images and returned
\* another number as 'image_count'.
C10_Witness ==
    /\ op = "analisis_komprehensif"
    /\ ret # None
    /\ \E i \in DOMAIN out : out[i] = <<"Jumlah citra", Some(Cardinality(C9_Selected))>>
    /\ ret[1].image_count # Cardinality(C9_Selected)

(***************************************************************************)
(* Claims about section 5 of rice_classification_with_existing_model.py,   *)
(* checked under SpecExisting.                                             *)
(***************************************************************************)
\* The file was unpickled and the object has no n_estimators.
C11_LoadedWithoutTrees ==
    /\ op = "section5"
    /\ arg.load.raised = "none"
    /\ (arg.load.value = None \/ "n_estimators" \notin arg.load.value[1].attrs)

\* C11: when the file is unpickled and the object has no n_estimators, the
\* classifier the script goes on with is a 200-tree remote random forest
\* trained on the whole of data_latih.
C11_AsClaimed ==
    (C11_LoadedWithoutTrees /\ pc = "section7") =>
        /\ model # None
        /\ model[1].trained
        /\ model[1].numberOfTrees = 200
        /\ model[1].features = Some(1..NRows)

\* The object had no n_estimators and the script goes on with a forest
\* trained, by the except Exception block, on a part of data_latih only.
C11_Witness ==
    /\ C11_LoadedWithoutTrees
    /\ pc = "section7"
    /\ ret = << "except Exception" >>
    /\ \E i \in DOMAIN calls : calls[i] = [fn |-> "NameError: data_latih"]
    /\ model[1].trained
    /\ model[1].features # Some(1..NRows)
    /\ model[1].features[1] # {}

C12_TrainRaised == \E i \in DOMAIN calls : calls[i].fn = "train" /\ calls[i].raised

C12_TrainSet == { r \in 1..NRows : arg.random[r] < 80 }

\* The training path each outcome of the load leads to.
C12_PathOf ==
    CASE arg.load.raised = "FileNotFoundError" -> "except FileNotFoundError"
      [] arg.load.raised = "Exception" -> "except Exception"
      [] arg.load.raised = "none" /\ C11_LoadedWithoutTrees -> "except Exception"
      [] OTHER -> "rebuilt"

\* C12: whatever loading the file did, the classification (section 6 of the
\* script) is only reached with model bound to a trained remote classifier
\* for 'FaseNumerik' over BANDS_SELECTED.  After section 5, when no train
\* call raised, exactly one training path bound model, the one the load
\* outcome leads to, and model is what that path trains: the loaded tree
\* count on data_latih for the rebuilt path, 200 trees on the training
\* split for either fallback.
C12_ModelBound ==
    /\ pc \in {"section7", "section8", "ready"} =>
          /\ model # None
          /\ model[1].trained
          /\ model[1].classProperty = "FaseNumerik"
          /\ model[1].inputProperties = BANDS_SELECTED
    /\ (op = "section5" /\ ~C12_TrainRaised) =>
          /\ ret = << C12_PathOf >>
          /\ model # None
          /\ model[1].trained
          /\ IF C12_PathOf = "rebuilt"
             THEN /\ model[1].numberOfTrees = arg.load.value[1].n_estimators
                  /\ model[1].features = Some(1..NRows)
             ELSE /\ model[1].numberOfTrees = 200
                  /\ model[1].features = Some(C12_TrainSet)
          /\ (pc = "aborted" <=> (C12_PathOf # "rebuilt" /\ arg.accuracy_raises))

\* The file was not found, the fallback trained and evaluated its forest,
\* and the script is at its classification.
C12_Witness ==
    /\ op = "section5"
    /\ arg.load.raised = "FileNotFoundError"
    /\ pc = "section7"
    /\ ret = << "except FileNotFoundError" >>
    /\ model[1].trained
    /\ model[1].features # Some(1..NRows)

(***************************************************************************)
(* Claims about load_and_create_ee_model and create_fallback_model,        *)
(* checked under SpecHelpers.                                              *)
(***************************************************************************)
C13_LoadFailed == arg.pickle.raised /\ arg.joblib.raised

C13_LoadedValue == IF ~arg.pickle.raised THEN arg.pickle.value ELSE arg.joblib.value

C13_Entries(name) == { i \in DOMAIN calls : calls[i].fn = name }

\* C13, as claimed: load_and_create_ee_model lets no exception out.  When load_model
\* fails (both deserializers raise) it returns (None, None) and neither
\* validates nor builds or trains a remote classifier.  When load_model
\* succeeds it validates once and then calls create_ee_model once, whatever
\* the validation said, and returns the loaded object with what
\* create_ee_model returned: None when nothing was loaded (a pickled None)
\* or the train call raised, else the classifier trained on the training
\* data.
C13_AsClaimed ==
    op = "load_and_create_ee_model" =>
        /\ exc = FALSE
        /\ Cardinality(C13_Entries("load_model")) = 1
        /\ C13_LoadFailed =>
              /\ ret = << None, None >>
              /\ C13_Entries("validate_model_compatibility") = {}
              /\ C13_Entries("create_ee_model") = {}
              /\ C13_Entries("ee.Classifier.smileRandomForest") = {}
              /\ C13_Entries("train") = {}
        /\ ~C13_LoadFailed =>
              /\ Cardinality(C13_Entries("validate_model_compatibility")) = 1
              /\ Cardinality(C13_Entries("create_ee_model")) = 1
              /\ \A i \in C13_Entries("validate_model_compatibility"), j \in C13_Entries("create_ee_model") : i < j
              /\ ret[1] = C13_LoadedValue
              /\ (ret[2] = None <=> (C13_LoadedValue = None \/ arg.train_raises))
              /\ ret[2] # None =>
                    /\ ret[2][1].trained
                    /\ ret[2][1].features = Some(1..NRows)
                    /\ Cardinality(C13_Entries("train")) = 1

\* A loaded forest with a depth: the constructor call of create_ee_model
\* raised and the exception left load_and_create_ee_model, which returned
\* no pair.
C13_Witness ==
    /\ op = "load_and_create_ee_model"
    /\ ~C13_LoadFailed
    /\ PassesMaxDepth(C13_LoadedValue)
    /\ arg.maxDepth_rejected
    /\ exc
    /\ ret = None
    /\ Cardinality(C13_Entries("create_ee_model")) = 1
    /\ C13_Entries("train") = {}

C14_TrainSet == { r \in 1..NRows : arg.random[r] < 80 }

C14_TestSet == { r \in 1..NRows : arg.random[r] >= 80 }

C14_Trees == IF arg.n_trees = None THEN 200 ELSE arg.n_trees[1]

\* C14: create_fallback_model trains a forest of n_trees trees (200 when the
\* caller gives none) on the rows whose 'random' is below 0.8 and evaluates
\* it on the rows at or above 0.8; the two sets are disjoint and together
\* are the whole table.  When the evaluation raises, the trained classifier
\* is returned all the same and no exception leaves the function; when the
\* train call raises, the exception leaves the function.
C14_Fallback ==
    op = "create_fallback_model" =>
        /\ exc = arg.train_raises
        /\ \A i \in DOMAIN calls :
              /\ calls[i].fn = "ee.Classifier.smileRandomForest" => calls[i].numberOfTrees = C14_Trees
              /\ calls[i].fn = "train" => calls[i].features = C14_TrainSet
              /\ calls[i].fn = "accuracy" => calls[i].features = C14_TestSet
        /\ C14_TrainSet \cap C14_TestSet = {}
        /\ C14_TrainSet \cup C14_TestSet = 1..NRows
        /\ Cardinality(C13_Entries("train")) = 1
        /\ arg.train_raises => ret = None /\ C13_Entries("accuracy") = {}
        /\ ~arg.train_raises =>
              /\ Cardinality(C13_Entries("accuracy")) = 1
              /\ ret # None
              /\ ret[1].trained
              /\ ret[1].numberOfTrees = C14_Trees
              /\ ret[1].features = Some(C14_TrainSet)
              /\ ret[1].classProperty = "FaseNumerik"
              /\ ret[1].inputProperties = BANDS_SELECTED

\* A default call whose table has a row on each side of 0.8 (one exactly at
\* 0.8) and whose accuracy evaluation raised.
C14_Witness ==
    /\ op = "create_fallback_model"
    /\ arg.n_trees = None
    /\ arg.accuracy_raises
    /\ ~arg.train_raises
    /\ \E r \in 1..NRows : arg.random[r] = 80
    /\ C14_TrainSet # {}
    /\ ret # None
    /\ ret[1].numberOfTrees = 200
    /\ ~exc

(***************************************************************************)
(* Claim about the training feature table, checked under SpecTable.        *)
(***************************************************************************)
\* The class code of a 'Fase' text as a training point carries it.
C15_CodeOf(text) ==
    CASE text = <<"V", "e", "g", "e", "t", "a", "t", "i", "f", " ", "1">> -> 1
      [] text = <<"V", "e", "g", "e", "t", "a", "t", "i", "f", " ", "2">> -> 2
      [] text = <<"G", "e", "n", "e", "r", "a", "t", "i", "f">> -> 3
      [] text = <<"P", "a", "n", "e", "n">> -> 4
      [] text = <<"B", "e", "r", "a">> -> 5
      [] OTHER -> 0

\* The (image, point) pairs whose sample has a value for every band, in the
\* table's order.
C15_Kept ==
    { c \in TrainImages \X (1..Len(arg.texts)) : arg.samples[c[1]][c[2]] = "full" }

\* C15: every row of data_latih has a non-null value for each band of
\* BANDS_SELECTED and for 'FaseNumerik'.  The table has one row for each
\* sample that has a value for every band, whatever the point's class code:
\* a point whose phase text is not recognised is kept with FaseNumerik 0, so
\* the codes in the table are among 0..5.
C15_DataLatih ==
    op = "persiapan_data_training" =>
        /\ \A i \in DOMAIN ret :
              /\ \A b \in {"API", "NDPI", "RPI", "RVI", "VH_int", "VV_int", "angle", "FaseNumerik"} :
                    b \in DOMAIN ret[i] /\ ret[i][b] # None
              /\ ret[i]["FaseNumerik"][1] \in 0..5
        /\ Len(ret) = Cardinality(C15_Kept)
        /\ \A code \in 0..5 :
              (\E c \in C15_Kept : C15_CodeOf(arg.texts[c[2]]) = code)
              <=> (\E i \in DOMAIN ret : ret[i]["FaseNumerik"] = Some(code))

\* A table that kept a row of an unrecognised phase (code 0) and lost a
\* sample with a masked band.
C15_Witness ==
    /\ op = "persiapan_data_training"
    /\ \E i \in DOMAIN ret : ret[i]["FaseNumerik"] = Some(0)
    /\ \E c \in TrainImages \X (1..Len(arg.texts)) : arg.samples[c[1]][c[2]] = "masked"
    /\ \E c \in TrainImages \X (1..Len(arg.texts)) : arg.samples[c[1]][c[2]] = "null"
    /\ Len(ret) = 2

(***************************************************************************)
(* Claims about clear_layers and about vis_params, checked under SpecMap.  *)
(***************************************************************************)
\* The name contains 'Klasifikasi'.
C16_HasKlasifikasi(name) ==
    \E i \in 1..Len(name) :
        /\ i + 10 <= Len(name)
        /\ SubSeq(name, i, i + 10) = <<"K", "l", "a", "s", "i", "f", "i", "k", "a", "s", "i">>

C16_Temporal(name) ==
    /\ C16_HasKlasifikasi(name)
    /\ name # <<"K", "l", "a", "s", "i", "f", "i", "k", "a", "s", "i", " ", "M", "e", "a", "n">>

\* The layers of the map before the first click.
C16_FirstLayers ==
    IF collection_size > 0
    THEN << <<"T", "i", "t", "i", "k", " ", "P", "e", "l", "a", "t", "i", "h", "a", "n">>,
            <<"K", "l", "a", "s", "i", "f", "i", "k", "a", "s", "i", " ", "M", "e", "a", "n">> >>
    ELSE << <<"T", "i", "t", "i", "k", " ", "P", "e", "l", "a", "t", "i", "h", "a", "n">> >>

\* C16: a click on 'Clear Layers' removes exactly the layers whose name
\* contains 'Klasifikasi' and is not 'Klasifikasi Mean' and keeps the
\* others; so the map then has the layers it had before the first click,
\* and a second click changes nothing.
C16_AsClaimed ==
    [][op' = "clear_layers" =>
          /\ layers' = SelectSeq(layers, LAMBDA name : ~C16_Temporal(name))
          /\ layers' = C16_FirstLayers
          /\ (op = "clear_layers" => layers' = layers)]_vars

\* A click on 'Clear Layers' that left a layer of a date range on the map.
C16_Witness ==
    /\ op = "clear_layers"
    /\ script = "optimized"
    /\ \E i \in DOMAIN layers : C16_Temporal(layers[i])
    /\ \E i \in DOMAIN calls : calls[i].fn = "Map.layers.keys" /\ calls[i].raised

(***************************************************************************)
(* Further claims about ModelLoader, checked under SpecLoader.             *)
(***************************************************************************)
C17_EeModelSound == ee_model = None \/ ee_model[1].trained

\* C17: create_ee_model lets no exception out; when its train call raises
\* it returns None and leaves ee_model None or as it was.  So ee_model is
\* always None or a classifier whose training succeeded, and
\* create_ee_model returns a classifier exactly when ee_model holds a
\* trained one.
C17_AsClaimed ==
    /\ [](/\ C17_EeModelSound
          /\ op = "create_ee_model" =>
                /\ exc = FALSE
                /\ (ret # None <=> (ee_model # None /\ ee_model[1].trained)))
    /\ [][(op' = "create_ee_model" /\ arg'[2]) =>
              /\ ret' = None
              /\ (ee_model' = None \/ ee_model' = ee_model)]_vars

\* A create_ee_model whose train call raised: it returned None and left an
\* untrained classifier in ee_model.
C17_Witness ==
    /\ op = "create_ee_model"
    /\ arg[2]
    /\ ret = None
    /\ ~exc
    /\ ee_model # None
    /\ ~ee_model[1].trained

(***************************************************************************)
(* C18: a load_model call that returns False leaves loaded_model and       *)
(* ee_model as they were before the call.  loaded_model changes only in a  *)
(* load_model call that returns True, so on a loader that has never loaded *)
(* successfully it is still None after the failed load, and then           *)
(* get_model_info returns None, validate_model_compatibility returns False *)
(* and create_ee_model returns None without any outside call and without   *)
(* touching ee_model.                                                      *)
(***************************************************************************)
C18_FailedLoad == op' = "load_model" /\ ret' = FALSE

C18_Frame ==
    C18_FailedLoad => /\ loaded_model' = loaded_model
                      /\ ee_model' = ee_model
                      /\ exc' = FALSE

C18_OnlyLoadBinds ==
    loaded_model' # loaded_model => (op' = "load_model" /\ ret' = TRUE)

C18_NothingLoaded ==
    loaded_model = None =>
        /\ op' = "get_model_info" => (ret' = None /\ exc' = FALSE)
        /\ op' = "validate_model_compatibility" => (ret' = FALSE /\ exc' = FALSE)
        /\ op' = "create_ee_model" =>
              /\ ret' = None
              /\ exc' = FALSE
              /\ calls' = <<>>
              /\ ee_model' = ee_model

C18_FailedLoadFrame ==
    /\ [](op = "__init__" => (loaded_model = None /\ ee_model = None))
    /\ [][C18_Frame /\ C18_OnlyLoadBinds /\ C18_NothingLoaded]_vars

\* A failed load on a loader that holds a loaded object and a trained
\* classifier from earlier calls.
C18_Witness ==
    /\ op = "load_model"
    /\ ret = FALSE
    /\ ~exc
    /\ loaded_model # None
    /\ ee_model # None
    /\ Len(calls) = 2

(***************************************************************************)
(* C19: once the map is ready, vis_params is defined exactly when the      *)
(* classified collection had images at start-up, and tampilkan_klasifikasi *)
(* never reads it while it is undefined: with the classified collection    *)
(* what it was at start-up, a filtered size above 0 implies a start-up     *)
(* size above 0.  So the handler prints an error only when an outside call *)
(* raised, and each time it goes past the size test vis_params is defined. *)
(***************************************************************************)
C19_FilteredSize ==
    Len(filterDate(hasil_klasifikasi, strftime(tanggal_mulai), strftime(tanggal_akhir)))

C19_PastSizeTest ==
    /\ op = "tampilkan_klasifikasi"
    /\ ~calls[1].raised
    /\ C19_FilteredSize > 0

C19_VisParamsDefined ==
    /\ pc = "ready" =>
          /\ collection_size = Len(hasil_klasifikasi)
          /\ vis_params # None <=> collection_size > 0
          /\ C19_FilteredSize > 0 => (collection_size > 0 /\ vis_params # None)
    /\ op = "tampilkan_klasifikasi" =>
          /\ pc = "ready"
          /\ ~exc
          /\ "Error" \in Range(out) => calls[Len(calls)].raised
          /\ Len(calls) > 1 <=> C19_PastSizeTest
          /\ C19_PastSizeTest =>
                /\ vis_params # None
                /\ collection_size > 0
                /\ calls[2].fn = "Map.addLayer"

\* A click that goes past the size test and adds its layer with vis_params.
C19_Witness ==
    /\ C19_PastSizeTest
    /\ vis_params = Some([min |-> 1, max |-> 5, palette |-> PALET])
    /\ collection_size > 0
    /\ calls[2] = RemoteCall("Map.addLayer", FALSE)
    /\ "Error" \notin Range(out)

====
